---- MODULE Spec2Model ----
(***************************************************************************)
(* metaser: encoding of tagged struct fields into Kubernetes object        *)
(* metadata (name, namespace, labels, annotations) and decoding back.      *)
(*                                                                         *)
(* Texts (Go strings that are converted) are sequences of one-character    *)
(* strings, so that splitting, joining, formatting and parsing are         *)
(* computed the way the code computes them.  Map keys of the container and *)
(* tag atoms are plain strings.  Go types are named by strings; TypeInfo   *)
(* gives their shape.                                                      *)
(***************************************************************************)
EXTENDS Integers, Sequences, FiniteSets, TLC

VARIABLES
    rtype,      \* name of the struct type of the live record
    rec,        \* the live record (value of the struct the caller passes by pointer)
    meta,       \* the metadata container: name, namespace, labels, annotations
    cache,      \* the Decoder's cache slot (Decoder.cache)
    last,       \* what the last call was, its options, its result and the state before it
    nops,       \* number of calls made so far
    saved,      \* round trip only: the record that was encoded
    calls,      \* concurrent callers only: the Decode call of each goroutine
    stores,     \* who built and stored an index in the cache slot, in order
    variant     \* which Decode of decoder.go the Decoder has: "atomic" or "inplace"

vars == <<rtype, rec, meta, cache, last, nops, saved, calls, stores, variant>>

-----------------------------------------------------------------------------
(* Bounds of the model *)

MaxOps == 1
MaxCalls == 3
MaxTokens == 2

\* The goroutines that call Decode on one Decoder at the same time.
NumProcs == 2

-----------------------------------------------------------------------------
(* const.go *)

itemSeparator == ","
keyValueSeparator == ":"

undefined == "undefined"

name == "name"
namespace == "namespace"
annotation == "annotation"
label == "label"

in == "in"
out == "out"
inout == "inout"

jsonEnc == "json"
custom == "custom"

-----------------------------------------------------------------------------
(* Text helpers: strings.Split, strings.Join, strconv *)

Digits == <<"0", "1", "2", "3", "4", "5", "6", "7", "8", "9">>

IsDigit(c) == \E i \in 1..10 : Digits[i] = c

DigitVal(c) == (CHOOSE i \in 1..10 : Digits[i] = c) - 1

RECURSIVE Pow2(_)
Pow2(n) == IF n = 0 THEN 1 ELSE 2 * Pow2(n - 1)

\* strings.Split(s, sep) for a one-character separator: never returns an
\* empty list; Split("", sep) is one empty text.
RECURSIVE SplitFrom(_, _, _, _)
SplitFrom(s, sep, i, cur) ==
    IF i > Len(s) THEN <<cur>>
    ELSE IF s[i] = sep THEN <<cur>> \o SplitFrom(s, sep, i + 1, <<>>)
    ELSE SplitFrom(s, sep, i + 1, Append(cur, s[i]))

Split(s, sep) == SplitFrom(s, sep, 1, <<>>)

\* strings.Join(elems, sep)
RECURSIVE Join(_, _)
Join(elems, sep) ==
    IF Len(elems) = 0 THEN <<>>
    ELSE IF Len(elems) = 1 THEN elems[1]
    ELSE elems[1] \o <<sep>> \o Join(Tail(elems), sep)

\* strconv.FormatUint(n, 10)
RECURSIVE FormatUint(_)
FormatUint(n) ==
    IF n < 10 THEN <<Digits[n + 1]>>
    ELSE FormatUint(n \div 10) \o <<Digits[(n % 10) + 1]>>

\* strconv.FormatInt(n, 10)
FormatInt(n) == IF n < 0 THEN <<"-">> \o FormatUint(-n) ELSE FormatUint(n)

\* strconv.FormatBool
FormatBool(b) == IF b THEN <<"t", "r", "u", "e">> ELSE <<"f", "a", "l", "s", "e">>

RECURSIVE DigitsValue(_, _)
DigitsValue(s, acc) ==
    IF Len(s) = 0 THEN acc ELSE DigitsValue(Tail(s), acc * 10 + DigitVal(s[1]))

AllDigits(s) == Len(s) > 0 /\ \A i \in 1..Len(s) : IsDigit(s[i])

\* strconv.ParseUint(s, 10, bits): no sign is accepted, the value must fit.
ParseUint(s, bits) ==
    IF ~AllDigits(s) THEN [ok |-> FALSE, v |-> 0]
    ELSE LET n == DigitsValue(s, 0)
         IN IF n >= Pow2(bits) THEN [ok |-> FALSE, v |-> 0]
            ELSE [ok |-> TRUE, v |-> n]

\* strconv.ParseInt(s, 10, bits): optional sign, digits, range of the width.
ParseInt(s, bits) ==
    IF Len(s) = 0 THEN [ok |-> FALSE, v |-> 0]
    ELSE LET neg == s[1] = "-"
             body == IF s[1] = "+" \/ s[1] = "-" THEN Tail(s) ELSE s
         IN IF ~AllDigits(body) THEN [ok |-> FALSE, v |-> 0]
            ELSE LET un == DigitsValue(body, 0)
                     cutoff == Pow2(bits - 1)
                 IN IF ~neg /\ un >= cutoff THEN [ok |-> FALSE, v |-> 0]
                    ELSE IF neg /\ un > cutoff THEN [ok |-> FALSE, v |-> 0]
                    ELSE [ok |-> TRUE, v |-> IF neg THEN -un ELSE un]

\* strings.ToLower on the letters of the boolean literals
ToLower(s) ==
    [i \in 1..Len(s) |->
        CASE s[i] = "T" -> "t" [] s[i] = "R" -> "r" [] s[i] = "U" -> "u"
          [] s[i] = "E" -> "e" [] s[i] = "F" -> "f" [] s[i] = "A" -> "a"
          [] s[i] = "L" -> "l" [] s[i] = "S" -> "s" [] OTHER -> s[i]]

\* A ParseBool that folds the case and knows the full words only.
ParseBoolFold(s) ==
    IF ToLower(s) \in {<<"1">>, <<"t", "r", "u", "e">>}
    THEN [ok |-> TRUE, v |-> TRUE]
    ELSE IF ToLower(s) \in {<<"0">>, <<"f", "a", "l", "s", "e">>}
    THEN [ok |-> TRUE, v |-> FALSE]
    ELSE [ok |-> FALSE, v |-> FALSE]

\* strconv.ParseBool
ParseBool(s) ==
    IF s \in {<<"1">>, <<"t">>, <<"T">>, <<"T", "R", "U", "E">>,
              <<"t", "r", "u", "e">>, <<"T", "r", "u", "e">>}
    THEN [ok |-> TRUE, v |-> TRUE]
    ELSE IF s \in {<<"0">>, <<"f">>, <<"F">>, <<"F", "A", "L", "S", "E">>,
                   <<"f", "a", "l", "s", "e">>, <<"F", "a", "l", "s", "e">>}
    THEN [ok |-> TRUE, v |-> FALSE]
    ELSE [ok |-> FALSE, v |-> FALSE]

-----------------------------------------------------------------------------
(* Go types of the model.  A type is named by a string; TypeInfo gives the  *)
(* reflect.Kind and what the conversion switch reads from the type.         *)

Ty(k, b, l, e) == [kind |-> k, bits |-> b, len |-> l, elem |-> e]

StructTypes == {"Imm", "Ali", "Opt", "Dir", "Ptr", "Inner", "Sca", "Com",
                "Leaf", "Mid", "Deep", "Twin",
                "BadTok", "BadKey", "BadEnc", "BadIn", "Non", "Cus", "Nest"}

\* The pointer types and what they point to (reflect.Type.Elem).
PtrElem ==
    ("*int8" :> "int8") @@ ("*string" :> "string") @@ ("*Inner" :> "Inner") @@
    ("*Leaf" :> "Leaf") @@ ("*Deep" :> "Deep") @@ ("*Twin" :> "Twin") @@
    ("*BadTok" :> "BadTok") @@ ("*BadKey" :> "BadKey") @@
    ("*BadEnc" :> "BadEnc") @@ ("*BadIn" :> "BadIn") @@ ("*Non" :> "Non") @@
    ("*Cus" :> "Cus") @@ ("*Nest" :> "Nest") @@
    [p \in {"*Imm", "*Ali", "*Opt", "*Dir", "*Ptr", "*Sca", "*Com"} |->
        CASE p = "*Imm" -> "Imm" [] p = "*Ali" -> "Ali" [] p = "*Opt" -> "Opt"
          [] p = "*Dir" -> "Dir" [] p = "*Ptr" -> "Ptr" [] p = "*Sca" -> "Sca"
          [] p = "*Com" -> "Com"]

\* reflect.TypeOf(&v) for v of type t
PtrTo(t) == CHOOSE p \in DOMAIN PtrElem : PtrElem[p] = t

TypeInfo(t) ==
    CASE t = "bool" -> Ty("bool", 0, 0, "")
      [] t = "int8" -> Ty("int", 8, 0, "")
      [] t = "int16" -> Ty("int", 16, 0, "")
      [] t = "uint8" -> Ty("uint", 8, 0, "")
      [] t = "uint16" -> Ty("uint", 16, 0, "")
      [] t = "string" -> Ty("string", 0, 0, "")
      [] t = "[2]int8" -> Ty("array", 0, 2, "int8")
      [] t = "[]int8" -> Ty("slice", 0, 0, "int8")
      [] t = "[]string" -> Ty("slice", 0, 0, "string")
      [] t = "map[string]int8" -> Ty("map", 0, 0, "int8")
      [] t = "map[string]string" -> Ty("map", 0, 0, "string")
      [] t \in DOMAIN PtrElem -> Ty("ptr", 0, 0, PtrElem[t])
      [] t = "Option[int8]" -> Ty("option", 0, 0, "int8")
      [] t \in StructTypes -> Ty("struct", 0, 0, "")

Kind(t) == TypeInfo(t).kind

\* A struct field: its Go name, its k8s tag and its type.  The tag is the
\* text inside k8s:"...", already cut at its separators: a sequence of
\* tokens (cut at ","), each a sequence of parts (cut at ":"), each a
\* sequence of atoms (cut at ";").  An untagged field has the empty tag.
Fld(n, tg, t) == [name |-> n, tag |-> tg, type |-> t]

Bare(a) == << <<a>> >>
KV(k, v) == << <<k>>, <<v>> >>
KL(k, vs) == << <<k>>, vs >>

StructFields(t) ==
    CASE t = "Imm" ->
           << Fld("A", <<KV("annotation", "one"), Bare("immutable")>>, "int8"),
              Fld("B", <<KV("annotation", "two"), Bare("setonce")>>, "int8"),
              Fld("C", <<KV("annotation", "three")>>, "int8") >>
      [] t = "Ali" ->
           << Fld("X", <<KV("annotation", "k"), KL("aliases", <<"a1", "a2">>)>>, "int8"),
              Fld("Y", <<KV("label", "y"), Bare("setonce"), Bare("immutable")>>, "uint8") >>
      [] t = "Opt" ->
           << Fld("J", <<KV("annotation", "j"), KV("enc", "json")>>, "*int8"),
              Fld("M", <<KV("label", "m")>>, "map[string]string"),
              Fld("O", <<KV("annotation", "o"), Bare("omitempty")>>, "Option[int8]") >>
      [] t = "Dir" ->
           << Fld("I", <<KV("annotation", "i"), Bare("in")>>, "int8"),
              Fld("U", <<KV("annotation", "u"), Bare("out"), Bare("immutable")>>, "int8"),
              Fld("L", <<KV("label", "l"), Bare("omitempty"), Bare("inout")>>, "string"),
              Fld("N", <<Bare("namespace"), Bare("out")>>, "string") >>
      [] t = "Ptr" ->
           << Fld("Z", <<>>, "int8"),
              Fld("P", <<Bare("inline")>>, "*Inner"),
              Fld("Q", <<Bare("name")>>, "string") >>
      [] t = "Inner" ->
           << Fld("V", <<KV("annotation", "v"), Bare("immutable")>>, "int8"),
              Fld("W", <<KV("label", "w"), Bare("omitempty")>>, "[2]int8") >>
      [] t = "Non" ->
           << Fld("N", <<KV("annotation", "n")>>, "Option[int8]") >>
      [] t = "Leaf" ->
           << Fld("X", <<KV("annotation", "iks")>>, "string") >>
      [] t = "Mid" ->
           << Fld("Z", <<>>, "int8"),
              Fld("A", <<Bare("inline")>>, "*Leaf"),
              Fld("V", <<>>, "int8") >>
      [] t = "Deep" ->
           << Fld("Z", <<>>, "int8"),
              Fld("C", <<Bare("inline")>>, "Mid"),
              Fld("V", <<>>, "int8") >>
      [] t = "Twin" ->
           << Fld("L", <<Bare("inline")>>, "Leaf"),
              Fld("R", <<Bare("inline")>>, "*Leaf") >>
      [] t = "BadTok" ->
           << Fld("F", <<KV("annotation", "f"), Bare("bogus")>>, "int8") >>
      [] t = "BadKey" ->
           << Fld("F", <<KV("annotation", "f"), KV("foo", "bar")>>, "int8") >>
      [] t = "BadEnc" ->
           << Fld("F", <<KV("annotation", "f"), KV("enc", "json2")>>, "int8") >>
      [] t = "BadIn" ->
           << Fld("P", <<Bare("inline")>>, "BadEnc"),
              Fld("F", <<KV("annotation", "f")>>, "int8") >>
      [] t = "Cus" ->
           << Fld("A", <<KV("annotation", "a")>>, "int8"),
              Fld("S", <<KV("annotation", "s"), KV("enc", "custom")>>, "int8"),
              Fld("C", <<KV("label", "c"), Bare("omitempty")>>, "int8") >>
      [] t = "Nest" ->
           << Fld("Z", <<KV("annotation", "z")>>, "int8"),
              Fld("S", <<>>, "Leaf") >>
      [] t = "Sca" ->
           << Fld("B", <<KV("annotation", "b")>>, "bool"),
              Fld("I", <<KV("annotation", "i8")>>, "int8"),
              Fld("H", <<KV("label", "i16")>>, "int16"),
              Fld("U", <<KV("label", "u8")>>, "uint8"),
              Fld("G", <<KV("annotation", "u16")>>, "uint16"),
              Fld("S", <<Bare("name")>>, "string") >>
      [] t = "Com" ->
           << Fld("A", <<KV("annotation", "arr")>>, "[2]int8"),
              Fld("S", <<KV("annotation", "sl")>>, "[]int8"),
              Fld("T", <<KV("label", "ss")>>, "[]string"),
              Fld("M", <<KV("annotation", "mp")>>, "map[string]int8"),
              Fld("P", <<KV("label", "pi")>>, "*int8"),
              Fld("R", <<KV("label", "ps")>>, "*string") >>

NumField(t) == Len(StructFields(t))

-----------------------------------------------------------------------------
(* Go values.  bool: BOOLEAN; intN/uintN: Int; string: text; [N]T: sequence *)
(* of N values; []T: [nil, e]; map[string]T: [nil, m] with m a function on  *)
(* key texts; *T: <<>> (nil) or <<pointee>>; Option[T]: [isSet, value];     *)
(* struct: sequence of field values.                                        *)

RECURSIVE Zero(_)
Zero(t) ==
    LET ti == TypeInfo(t) IN
    CASE ti.kind = "bool" -> FALSE
      [] ti.kind \in {"int", "uint"} -> 0
      [] ti.kind = "string" -> <<>>
      [] ti.kind = "array" -> [i \in 1..ti.len |-> Zero(ti.elem)]
      [] ti.kind = "slice" -> [nil |-> TRUE, e |-> <<>>]
      [] ti.kind = "map" -> [nil |-> TRUE, m |-> <<>>]
      [] ti.kind = "ptr" -> <<>>
      [] ti.kind = "option" -> [isSet |-> FALSE, value |-> Zero(ti.elem)]
      [] ti.kind = "struct" -> [i \in 1..NumField(t) |-> Zero(StructFields(t)[i].type)]

\* reflect.Value.IsZero
IsZero(t, v) == v = Zero(t)

\* reflect.DeepEqual on two values of one type
equal(v1, v2) == v1 = v2

-----------------------------------------------------------------------------
(* Tag grammar parser *)

defaultTag ==
    [source |-> undefined, enc |-> undefined, dir |-> inout, value |-> "",
     inline |-> FALSE, omitempty |-> FALSE, immutable |-> FALSE,
     aliases |-> <<>>, setOnce |-> FALSE]

BareKeys == {"name", "namespace", "inline", "in", "out", "inout",
             "omitempty", "immutable", "setonce"}

\* parseEncoding: [err, enc]
parseEncoding(expr) ==
    CASE expr = "json" -> [err |-> FALSE, enc |-> jsonEnc]
      [] expr = "custom" -> [err |-> FALSE, enc |-> custom]
      [] expr = "" -> [err |-> FALSE, enc |-> undefined]
      [] OTHER -> [err |-> TRUE, enc |-> undefined]

\* The text of a part that is not cut at ";": one atom is itself.
PartText(part) == IF Len(part) = 1 THEN part[1] ELSE "<text with ;>"

\* One token applied to the descriptor: [err, pt].
applyToken(pt, f) ==
    IF Len(f) = 1 /\ Len(f[1]) = 1 /\ f[1][1] \in BareKeys
    THEN LET a == f[1][1] IN
         [err |-> FALSE,
          pt |-> CASE a = "name" -> [pt EXCEPT !.source = name]
                   [] a = "namespace" -> [pt EXCEPT !.source = namespace]
                   [] a = "inline" -> [pt EXCEPT !.inline = TRUE]
                   [] a = "in" -> [pt EXCEPT !.dir = in]
                   [] a = "out" -> [pt EXCEPT !.dir = out]
                   [] a = "inout" -> [pt EXCEPT !.dir = inout]
                   [] a = "omitempty" -> [pt EXCEPT !.omitempty = TRUE]
                   [] a = "immutable" -> [pt EXCEPT !.immutable = TRUE]
                   [] a = "setonce" -> [pt EXCEPT !.setOnce = TRUE]]
    ELSE IF Len(f) # 2 THEN [err |-> TRUE, pt |-> pt]
    ELSE LET k == PartText(f[1])
             v == PartText(f[2])
         IN CASE k = "enc" ->
                   LET e == parseEncoding(v)
                   IN IF e.err THEN [err |-> TRUE, pt |-> pt]
                      ELSE [err |-> FALSE, pt |-> [pt EXCEPT !.enc = e.enc]]
              [] k = "annotation" ->
                   [err |-> FALSE, pt |-> [pt EXCEPT !.source = annotation, !.value = v]]
              [] k = "label" ->
                   [err |-> FALSE, pt |-> [pt EXCEPT !.source = label, !.value = v]]
              [] k = "aliases" ->
                   [err |-> FALSE, pt |-> [pt EXCEPT !.aliases = f[2]]]
              [] OTHER -> [err |-> TRUE, pt |-> pt]

RECURSIVE parseTokens(_, _, _)
parseTokens(pt, tag, i) ==
    IF i > Len(tag) THEN [err |-> FALSE, isNil |-> FALSE, pt |-> pt]
    ELSE LET r == applyToken(pt, tag[i])
         IN IF r.err THEN [err |-> TRUE, isNil |-> TRUE, pt |-> defaultTag]
            ELSE parseTokens(r.pt, tag, i + 1)

\* parseTag: [err, isNil, pt]; isNil without err: the field is not managed.
parseTag(tag) ==
    IF Len(tag) = 0 THEN [err |-> FALSE, isNil |-> TRUE, pt |-> defaultTag]
    ELSE parseTokens(defaultTag, tag, 1)

\* The front of parseTag, on the text of a struct tag.  The text is a
\* sequence of lexemes: a word, one of the characters "," ":" ";" and " ",
\* the opening k8s:" and the closing quote.

k8sOpen == "k8s:\""
quote == "\""

\* strings.Fields(s): the pieces between runs of white space
RECURSIVE FieldsFrom(_, _, _)
FieldsFrom(s, i, cur) ==
    IF i > Len(s) THEN (IF cur = <<>> THEN <<>> ELSE <<cur>>)
    ELSE IF s[i] = " "
    THEN (IF cur = <<>> THEN <<>> ELSE <<cur>>) \o FieldsFrom(s, i + 1, <<>>)
    ELSE FieldsFrom(s, i + 1, Append(cur, s[i]))

Fields(s) == FieldsFrom(s, 1, <<>>)

TrimPrefix(f, p) == IF f # <<>> /\ f[1] = p THEN Tail(f) ELSE f

TrimSuffix(f, p) == IF f # <<>> /\ f[Len(f)] = p THEN SubSeq(f, 1, Len(f) - 1) ELSE f

\* The loop over the fields of the tag text: the first one that starts with
\* k8s, without k8s:" and the closing quote; empty when there is none.
RECURSIVE k8sTagIn(_, _)
k8sTagIn(fs, i) ==
    IF i > Len(fs) THEN <<>>
    ELSE IF fs[i][1] = k8sOpen
    THEN TrimSuffix(TrimPrefix(fs[i], k8sOpen), quote)
    ELSE k8sTagIn(fs, i + 1)

\* A piece of text between separators as one atom.
AtomOf(seg) ==
    IF seg = <<>> THEN "" ELSE IF Len(seg) = 1 THEN seg[1] ELSE "<several lexemes>"

AtomsOf(segs) == [j \in 1..Len(segs) |-> AtomOf(segs[j])]

PartsOf(parts) == [i \in 1..Len(parts) |-> AtomsOf(Split(parts[i], ";"))]

\* strings.Split(k8sTag, ","), each token cut at ":" and its parts at ";"
TokensOf(toks) == [i \in 1..Len(toks) |-> PartsOf(Split(toks[i], ":"))]

\* parseTag on the text of a struct tag: [err, isNil, pt]
parseTagText(text) ==
    parseTag(IF k8sTagIn(Fields(text), 1) = <<>> THEN <<>>
             ELSE TokensOf(Split(k8sTagIn(Fields(text), 1), ",")))

-----------------------------------------------------------------------------
(* Field index *)

emptyCache ==
    [CachedType |-> "", NameFastAccess |-> <<>>, NamespaceFastAccess |-> <<>>,
     AnnotationFastAccess |-> <<>>, LabelsFastAccess |-> <<>>,
     CustomFieldsFastAccess |-> <<>>]

\* m[k] of a Go map of lists: the nil list when k is not a key
Lookup(m, k) == IF k \in DOMAIN m THEN m[k] ELSE <<>>

\* m[k] = append(m[k], item)
AppendAt(m, k, item) ==
    [x \in DOMAIN m \cup {k} |-> IF x = k THEN Append(Lookup(m, k), item) ELSE m[x]]

\* The switch on pt.source of the visitor: the bucket an entry goes to.
addItem(c, item) ==
    LET pt == item.tag IN
    CASE pt.source = name ->
           [c EXCEPT !.NameFastAccess = Append(@, item)]
      [] pt.source = namespace ->
           [c EXCEPT !.NamespaceFastAccess = Append(@, item)]
      [] pt.source = annotation ->
           [c EXCEPT !.AnnotationFastAccess = AppendAt(@, pt.value, item)]
      [] pt.source = label ->
           [c EXCEPT !.LabelsFastAccess = AppendAt(@, pt.value, item)]
      [] pt.source = undefined ->
           IF pt.enc = custom
           THEN [c EXCEPT !.CustomFieldsFastAccess = Append(@, item)]
           ELSE c

\* The visitor's loop over the fields of struct t: [err, expand, c].
RECURSIVE visitFields(_, _, _, _, _)
visitFields(c, t, path, i, recurse) ==
    IF i > NumField(t) THEN [err |-> FALSE, expand |-> recurse, c |-> c]
    ELSE LET p == parseTag(StructFields(t)[i].tag)
         IN IF p.err THEN [err |-> TRUE, expand |-> FALSE, c |-> c]
            ELSE IF p.isNil THEN visitFields(c, t, path, i + 1, recurse)
            ELSE visitFields(addItem(c, [path |-> Append(path, i), tag |-> p.pt]),
                             t, path, i + 1, TRUE)

\* The visitor of cache.build: [err, expand, c].
visitor(c, t, path) ==
    IF Kind(t) = "ptr" THEN [err |-> FALSE, expand |-> TRUE, c |-> c]
    ELSE IF Kind(t) # "struct" THEN [err |-> FALSE, expand |-> FALSE, c |-> c]
    ELSE visitFields(c, t, path, 1, FALSE)

\* What visit pushes for an expanded type, in push order.
pushed(t, path) ==
    IF Kind(t) = "struct"
    THEN [i \in 1..NumField(t) |-> [t |-> StructFields(t)[i].type, p |-> Append(path, i)]]
    ELSE IF Kind(t) = "ptr" THEN << [t |-> PtrElem[t], p |-> path] >>
    ELSE <<>>

\* visit: the stack q is popped at its end; a type is visited once.
RECURSIVE visit(_, _, _)
visit(q, visited, c) ==
    IF Len(q) = 0 THEN [err |-> FALSE, c |-> c]
    ELSE LET e == q[Len(q)]
             rest == SubSeq(q, 1, Len(q) - 1)
         IN IF e.t \in visited THEN visit(rest, visited, c)
            ELSE LET r == visitor(c, e.t, e.p)
                 IN IF r.err THEN [err |-> TRUE, c |-> r.c]
                    ELSE IF ~r.expand THEN visit(rest, visited \cup {e.t}, r.c)
                    ELSE visit(rest \o pushed(e.t, e.p), visited \cup {e.t}, r.c)

\* The index of a root type (the type of the pointer passed in): [err, c].
newCache(root) ==
    LET r == visit(<< [t |-> root, p |-> <<>>] >>, {}, emptyCache)
    IN IF r.err THEN [err |-> TRUE, c |-> emptyCache]
       ELSE [err |-> FALSE, c |-> [r.c EXCEPT !.CachedType = root]]

-----------------------------------------------------------------------------
(* Conversion layer, encode direction.  A result is [err, s].  ord is the   *)
(* order in which Go's map iteration happens to yield the keys: a sequence  *)
(* of key texts; keys of the map are yielded in the order they have in it.  *)

Ok(s) == [err |-> FALSE, s |-> s]
Fail == [err |-> TRUE, s |-> <<>>]

\* The keys of map m in iteration order ord.
RECURSIVE KeysInOrder(_, _)
KeysInOrder(m, ord) ==
    IF Len(ord) = 0 THEN <<>>
    ELSE IF ord[1] \in DOMAIN m THEN <<ord[1]>> \o KeysInOrder(m, Tail(ord))
    ELSE KeysInOrder(m, Tail(ord))

RECURSIVE encodeUndefined(_, _, _)
RECURSIVE encodePrimitive(_, _, _)
RECURSIVE assignArray(_, _, _, _)
RECURSIVE assignMap(_, _, _, _, _)

\* assignArray / assignSlice: elems of type et from index i on: [err, elems]
assignArray(et, elems, i, ord) ==
    IF i > Len(elems) THEN [err |-> FALSE, elems |-> <<>>]
    ELSE LET r == encodeUndefined(et, elems[i], ord)
         IN IF r.err THEN [err |-> TRUE, elems |-> <<>>]
            ELSE LET rs == assignArray(et, elems, i + 1, ord)
                 IN IF rs.err THEN rs
                    ELSE [err |-> FALSE, elems |-> <<r.s>> \o rs.elems]

\* assignMap: the items "key:value" for the keys ks from index i on
assignMap(et, m, ks, i, ord) ==
    IF i > Len(ks) THEN [err |-> FALSE, elems |-> <<>>]
    ELSE LET ev == encodeUndefined(et, m[ks[i]], ord)
             ek == encodeUndefined("string", ks[i], ord)
         IN IF ev.err \/ ek.err THEN [err |-> TRUE, elems |-> <<>>]
            ELSE LET rs == assignMap(et, m, ks, i + 1, ord)
                 IN IF rs.err THEN rs
                    ELSE [err |-> FALSE,
                          elems |-> <<Join(<<ek.s, ev.s>>, keyValueSeparator)>> \o rs.elems]

encodeOption(t, v, ord) ==
    IF v.isSet THEN encodeUndefined(TypeInfo(t).elem, v.value, ord) ELSE Ok(<<>>)

encodePrimitive(t, v, ord) ==
    LET ti == TypeInfo(t) IN
    CASE ti.kind = "bool" -> Ok(FormatBool(v))
      [] ti.kind = "int" -> Ok(FormatInt(v))
      [] ti.kind = "uint" -> Ok(FormatUint(v))
      [] ti.kind = "array" ->
           LET r == assignArray(ti.elem, v, 1, ord)
           IN IF r.err THEN Fail ELSE Ok(Join(r.elems, itemSeparator))
      [] ti.kind = "slice" ->
           LET r == assignArray(ti.elem, v.e, 1, ord)
           IN IF r.err THEN Fail ELSE Ok(Join(r.elems, itemSeparator))
      [] ti.kind = "map" ->
           LET r == assignMap(ti.elem, v.m, KeysInOrder(v.m, ord), 1, ord)
           IN IF r.err THEN Fail ELSE Ok(Join(r.elems, itemSeparator))
      [] ti.kind = "ptr" ->
           IF v = <<>> THEN Ok(<<>>) ELSE encodeUndefined(ti.elem, v[1], ord)
      [] ti.kind = "string" -> Ok(v)
      [] OTHER -> Fail

encodeUndefined(t, v, ord) ==
    IF Kind(t) = "option" THEN encodeOption(t, v, ord) ELSE encodePrimitive(t, v, ord)

\* json.Marshal of the types the model encodes as json
encodeJson(t, v) ==
    LET ti == TypeInfo(t) IN
    CASE ti.kind = "int" -> Ok(FormatInt(v))
      [] ti.kind = "ptr" /\ Kind(ti.elem) = "int" ->
           IF v = <<>> THEN Ok(<<"n", "u", "l", "l">>) ELSE Ok(FormatInt(v[1]))

\* encodeCustom: no type of the model implements MetadataMarshaler
encodeCustom(t, v) ==
    IF Kind(t) = "ptr" /\ v = <<>> THEN Ok(<<>>) ELSE Fail

encode(t, v, enc, ord) ==
    CASE enc = undefined -> encodeUndefined(t, v, ord)
      [] enc = jsonEnc -> encodeJson(t, v)
      [] enc = custom -> encodeCustom(t, v)
      [] OTHER -> Fail

-----------------------------------------------------------------------------
(* Conversion layer, decode direction.  A result is [err, v]: v is what the *)
(* target slot holds afterwards, also when the conversion failed.           *)

RECURSIVE decodeUndefined(_, _, _)
RECURSIVE decodePrimitive(_, _, _)
RECURSIVE assignToArrayFrom(_, _, _, _)
RECURSIVE assignToSlice(_, _, _)
RECURSIVE assignToMap(_, _, _, _)

assignToBool(cur, s) ==
    LET r == ParseBool(s) IN IF r.ok THEN [err |-> FALSE, v |-> r.v] ELSE [err |-> TRUE, v |-> cur]

\* assignToInt that stores what fits the width of a value of any size.
assignToIntWrap(cur, s, bits) ==
    LET r == ParseInt(s, 24)
    IN IF r.ok
       THEN [err |-> FALSE,
             v |-> ((r.v + Pow2(bits - 1)) % Pow2(bits)) - Pow2(bits - 1)]
       ELSE [err |-> TRUE, v |-> cur]

assignToInt(cur, s, bits) ==
    LET r == ParseInt(s, bits) IN IF r.ok THEN [err |-> FALSE, v |-> r.v] ELSE [err |-> TRUE, v |-> cur]

assignToUInt(cur, s, bits) ==
    LET r == ParseUint(s, bits) IN IF r.ok THEN [err |-> FALSE, v |-> r.v] ELSE [err |-> TRUE, v |-> cur]

\* The loop of assignToArray from index i on: elements are decoded in place.
assignToArrayFrom(et, cur, values, i) ==
    IF i > Len(values) THEN [err |-> FALSE, v |-> cur]
    ELSE LET r == decodeUndefined(et, cur[i], values[i])
             nxt == [cur EXCEPT ![i] = r.v]
         IN IF r.err THEN [err |-> TRUE, v |-> nxt]
            ELSE assignToArrayFrom(et, nxt, values, i + 1)

\* assignToArray that accepts a text of fewer items than the array has.
assignToArrayFewer(ti, cur, values) ==
    IF ti.len < Len(values) THEN [err |-> TRUE, v |-> cur]
    ELSE assignToArrayFrom(ti.elem, cur, values, 1)

\* assignToArray for an array type ti and the items values of the text.
assignToArray(ti, cur, values) ==
    IF ti.len # Len(values) THEN [err |-> TRUE, v |-> cur]
    ELSE assignToArrayFrom(ti.elem, cur, values, 1)

\* The loop of assignToSlice over a fresh slice: [err, e]
assignToSlice(et, values, i) ==
    IF i > Len(values) THEN [err |-> FALSE, e |-> <<>>]
    ELSE LET r == decodeUndefined(et, Zero(et), values[i])
         IN IF r.err THEN [err |-> TRUE, e |-> <<>>]
            ELSE LET rs == assignToSlice(et, values, i + 1)
                 IN IF rs.err THEN rs ELSE [err |-> FALSE, e |-> <<r.v>> \o rs.e]

\* The loop of assignToMap over a fresh map mp: [err, m]
assignToMap(et, values, i, mp) ==
    IF i > Len(values) THEN [err |-> FALSE, m |-> mp]
    ELSE LET elem == Split(values[i], keyValueSeparator)
         IN IF Len(elem) # 2 THEN [err |-> TRUE, m |-> mp]
            ELSE LET r == decodeUndefined(et, Zero(et), elem[2])
                 IN IF r.err THEN [err |-> TRUE, m |-> mp]
                    ELSE assignToMap(et, values, i + 1,
                            [k \in DOMAIN mp \cup {elem[1]} |->
                                IF k = elem[1] THEN r.v ELSE mp[k]])

assignToPointer(t, cur, s) ==
    LET et == TypeInfo(t).elem
        realValue == IF cur = <<>> THEN Zero(et) ELSE cur[1]
        r == decodePrimitive(et, realValue, s)
    IN IF r.err
       THEN [err |-> TRUE, v |-> IF cur = <<>> THEN cur ELSE <<r.v>>]
       ELSE [err |-> FALSE, v |-> <<r.v>>]

decodePrimitive(t, cur, s) ==
    LET ti == TypeInfo(t) IN
    CASE ti.kind = "bool" -> assignToBool(cur, s)
      [] ti.kind = "int" -> assignToInt(cur, s, ti.bits)
      [] ti.kind = "uint" -> assignToUInt(cur, s, ti.bits)
      [] ti.kind = "array" -> assignToArray(ti, cur, Split(s, itemSeparator))
      [] ti.kind = "map" ->
           LET r == assignToMap(ti.elem, Split(s, itemSeparator), 1, <<>>)
           IN IF r.err THEN [err |-> TRUE, v |-> cur]
              ELSE [err |-> FALSE, v |-> [nil |-> FALSE, m |-> r.m]]
      [] ti.kind = "ptr" -> assignToPointer(t, cur, s)
      [] ti.kind = "slice" ->
           LET r == assignToSlice(ti.elem, Split(s, itemSeparator), 1)
           IN IF r.err THEN [err |-> TRUE, v |-> cur]
              ELSE [err |-> FALSE, v |-> [nil |-> FALSE, e |-> r.e]]
      [] ti.kind = "string" -> [err |-> FALSE, v |-> s]
      [] OTHER -> [err |-> TRUE, v |-> cur]

\* decodeOption that sets the presence flag whatever the inner decode
\* returned.
decodeOptionAlways(t, cur, s) ==
    LET r == decodeUndefined(TypeInfo(t).elem, cur.value, s)
    IN [err |-> r.err, v |-> [isSet |-> TRUE, value |-> r.v]]

decodeOption(t, cur, s) ==
    LET r == decodeUndefined(TypeInfo(t).elem, cur.value, s)
    IN [err |-> r.err,
        v |-> [isSet |-> IF r.err THEN cur.isSet ELSE TRUE, value |-> r.v]]

decodeUndefined(t, cur, s) ==
    IF Kind(t) = "option" THEN decodeOption(t, cur, s) ELSE decodePrimitive(t, cur, s)

\* A JSON integer literal: -?(0|[1-9][0-9]*)
IsJsonInt(s) ==
    LET body == IF Len(s) > 0 /\ s[1] = "-" THEN Tail(s) ELSE s
    IN AllDigits(body) /\ (Len(body) = 1 \/ body[1] # "0")

\* json.Unmarshal into an intN: [err, v]
jsonToInt(cur, s, bits) ==
    IF s = <<"n", "u", "l", "l">> THEN [err |-> FALSE, v |-> cur]
    ELSE IF IsJsonInt(s) THEN assignToInt(cur, s, bits)
    ELSE [err |-> TRUE, v |-> cur]

\* decodeJson for the types the model decodes as json: a nil pointer is
\* allocated before json.Unmarshal runs; otherwise the address of the slot
\* is passed, so that null resets a pointer.
decodeJson(t, cur, s) ==
    LET ti == TypeInfo(t) IN
    CASE ti.kind = "int" -> jsonToInt(cur, s, ti.bits)
      [] ti.kind = "ptr" /\ Kind(ti.elem) = "int" ->
           IF cur = <<>>
           THEN LET r == jsonToInt(Zero(ti.elem), s, TypeInfo(ti.elem).bits)
                IN [err |-> r.err, v |-> <<r.v>>]
           ELSE IF s = <<"n", "u", "l", "l">> THEN [err |-> FALSE, v |-> <<>>]
           ELSE LET r == jsonToInt(cur[1], s, TypeInfo(ti.elem).bits)
                IN [err |-> r.err, v |-> <<r.v>>]

\* decodeCustom: a nil pointer is allocated; no type of the model implements
\* MetadataUnmarshaler, so the method lookup fails.
decodeCustom(t, cur) ==
    [err |-> TRUE, v |-> IF Kind(t) = "ptr" /\ cur = <<>> THEN <<Zero(TypeInfo(t).elem)>> ELSE cur]

decodeWithEncoder(t, cur, s, enc) ==
    CASE enc = undefined -> decodeUndefined(t, cur, s)
      [] enc = jsonEnc -> decodeJson(t, cur, s)
      [] OTHER -> [err |-> FALSE, v |-> cur]

-----------------------------------------------------------------------------
(* Access to a field of the record by its path *)

\* The struct type reached after field x of struct t, through a pointer if
\* the field is a pointer to a struct.
InnerStruct(t, x) ==
    LET ft == StructFields(t)[x].type
    IN IF Kind(ft) = "ptr" THEN PtrElem[ft] ELSE ft

\* The type of the field at path index[i..] of struct t.
RECURSIVE fieldType(_, _, _)
fieldType(t, index, i) ==
    IF i = Len(index) THEN StructFields(t)[index[i]].type
    ELSE fieldType(InnerStruct(t, index[i]), index, i + 1)

\* fieldByIndexWithAlloc, the allocation: the struct v of type t with every
\* nil pointer to a struct on the way to index allocated.
RECURSIVE allocPath(_, _, _, _)
allocPath(t, v, index, i) ==
    IF i = Len(index) THEN v
    ELSE LET x == index[i]
             ft == StructFields(t)[x].type
             et == InnerStruct(t, x)
         IN IF Kind(ft) = "ptr"
            THEN LET pointee == IF v[x] = <<>> THEN Zero(et) ELSE v[x][1]
                 IN [v EXCEPT ![x] = <<allocPath(et, pointee, index, i + 1)>>]
            ELSE [v EXCEPT ![x] = allocPath(et, v[x], index, i + 1)]

\* fieldByIndexWithAlloc, the field reached (v has the path allocated).
RECURSIVE fieldValue(_, _, _, _)
fieldValue(t, v, index, i) ==
    IF i = Len(index) THEN v[index[i]]
    ELSE LET x == index[i]
             child == IF Kind(StructFields(t)[x].type) = "ptr" THEN v[x][1] ELSE v[x]
         IN fieldValue(InnerStruct(t, x), child, index, i + 1)

\* A store through the reflect.Value fieldByIndexWithAlloc returned.
RECURSIVE setField(_, _, _, _, _)
setField(t, v, index, i, new) ==
    IF i = Len(index) THEN [v EXCEPT ![index[i]] = new]
    ELSE LET x == index[i]
             et == InnerStruct(t, x)
         IN IF Kind(StructFields(t)[x].type) = "ptr"
            THEN [v EXCEPT ![x] = <<setField(et, v[x][1], index, i + 1, new)>>]
            ELSE [v EXCEPT ![x] = setField(et, v[x], index, i + 1, new)]

-----------------------------------------------------------------------------
(* Decode driver *)

\* A Go map[string]string of the container: [nil, m]
MapGet(mp, k) == mp.m[k]
MapHas(mp, k) == k \in DOMAIN mp.m

RECURSIVE firstAlias(_, _, _)
firstAlias(values, aliases, i) ==
    IF i > Len(aliases) THEN <<>>
    ELSE IF MapHas(values, aliases[i]) THEN MapGet(values, aliases[i])
    ELSE firstAlias(values, aliases, i + 1)

match(values, tag) ==
    IF MapHas(values, tag.value) THEN MapGet(values, tag.value)
    ELSE firstAlias(values, tag.aliases, 1)

\* field.TypeInvalid(metadata.<source>, tag.value, message)
FieldError(tag, msg) == [source |-> tag.source, key |-> tag.value, msg |-> msg]

\* decodeField, the text the switch on tag.source hands to the conversion.
sourceText(dc, tag) ==
    CASE tag.source = name -> dc.meta.name
      [] tag.source = namespace -> dc.meta.namespace
      [] tag.source = label -> match(dc.meta.labels, tag)
      [] tag.source = annotation -> match(dc.meta.annotations, tag)
      [] tag.source = undefined -> <<>>

\* decodeField, the conversion the switch on tag.source selects: [err, v]
decodeBySource(tag, t, cur, s) ==
    CASE tag.source \in {name, namespace} -> decodePrimitive(t, cur, s)
      [] tag.source \in {label, annotation} -> decodeWithEncoder(t, cur, s, tag.enc)
      [] tag.source = undefined -> decodeCustom(t, cur)

\* decodeField, the error handling after the switch: r is what the
\* conversion returned.
decodeFieldReturn(dc, tag, r) ==
    [err |-> r.err, v |-> r.v,
     fieldErrors |-> IF dc.accumulateFieldErrors /\ r.err
                     THEN Append(dc.fieldErrors, FieldError(tag, "decode"))
                     ELSE dc.fieldErrors]

\* decodeField on a slot of type t holding cur: [err, v, fieldErrors]
decodeField(dc, tag, t, cur) ==
    IF tag.dir = out \/ tag.inline
    THEN [err |-> FALSE, v |-> cur, fieldErrors |-> dc.fieldErrors]
    ELSE decodeFieldReturn(dc, tag, decodeBySource(tag, t, cur, sourceText(dc, tag)))

\* validateField on the live slot of type t holding v: [err, fieldErrors].
\* The container's value is decoded into cv, a fresh zero value.
\* validateCompare with the early return on a decode error missing: the
\* error decodeField has recorded is recorded again.
validateCompareTwice(dc, tag, v, r) ==
    IF r.err \/ ~equal(v, r.v)
    THEN [err |-> TRUE,
          fieldErrors |-> IF dc.accumulateFieldErrors
                          THEN Append(r.fieldErrors, FieldError(tag, "immutable"))
                          ELSE r.fieldErrors]
    ELSE [err |-> FALSE, fieldErrors |-> r.fieldErrors]

\* validateField after cv was decoded: r is what decodeField returned for cv.
validateCompare(dc, tag, v, r) ==
    IF r.err THEN [err |-> TRUE, fieldErrors |-> r.fieldErrors]
    ELSE IF ~equal(v, r.v)
    THEN [err |-> TRUE,
          fieldErrors |-> IF dc.accumulateFieldErrors
                          THEN Append(r.fieldErrors, FieldError(tag, "immutable"))
                          ELSE r.fieldErrors]
    ELSE [err |-> FALSE, fieldErrors |-> r.fieldErrors]

\* validateField without the early return for a setonce field that is zero.
validateFieldNoSkip(dc, tag, t, v) ==
    IF tag.setOnce \/ tag.immutable
    THEN validateCompare(dc, tag, v, decodeField(dc, tag, t, Zero(t)))
    ELSE [err |-> FALSE, fieldErrors |-> dc.fieldErrors]

validateField(dc, tag, t, v) ==
    IF tag.setOnce /\ IsZero(t, v)
    THEN [err |-> FALSE, fieldErrors |-> dc.fieldErrors]
    ELSE IF tag.setOnce \/ tag.immutable
    THEN validateCompare(dc, tag, v, decodeField(dc, tag, t, Zero(t)))
    ELSE [err |-> FALSE, fieldErrors |-> dc.fieldErrors]

\* fieldFilter.Apply
filterApply(dc, info) ==
    IF dc.immutablesOnly THEN info.tag.immutable \/ info.tag.setOnce ELSE TRUE

\* The closure decode passes to iterate, on one index entry: the context
\* afterwards, with stop set when the closure returned an error.
\* stepReturn of closures that return the error whether or not errors are
\* accumulated.
stepReturnAlways(dc, root1, r) ==
    [dc EXCEPT !.root = root1,
               !.fieldErrors = r.fieldErrors,
               !.stop = r.err]

\* The context after a closure ran on one index entry: root1 is the record
\* as the closure left it, r what decodeField or validateField returned.
stepReturn(dc, root1, r) ==
    [dc EXCEPT !.root = root1,
               !.fieldErrors = r.fieldErrors,
               !.stop = r.err /\ ~dc.accumulateFieldErrors]

\* The closure of decode on the slot of type ft at info.path of the record
\* root1 (of struct type st), whose path is allocated.
decodeSlot(dc, info, st, root1, ft, r) ==
    stepReturn(dc, setField(st, root1, info.path, 1, r.v), r)

\* decodeStep of a decode phase that treats protected fields as read-only.
decodeStepProtect(dc, info) ==
    IF ~filterApply(dc, info) \/ info.tag.immutable \/ info.tag.setOnce THEN dc
    ELSE LET st == PtrElem[dc.cache.CachedType]
             root1 == allocPath(st, dc.root, info.path, 1)
             ft == fieldType(st, info.path, 1)
         IN decodeSlot(dc, info, st, root1, ft,
                       decodeField(dc, info.tag, ft, fieldValue(st, root1, info.path, 1)))

decodeStep(dc, info) ==
    IF ~filterApply(dc, info) THEN dc
    ELSE LET st == PtrElem[dc.cache.CachedType]
             root1 == allocPath(st, dc.root, info.path, 1)
             ft == fieldType(st, info.path, 1)
         IN decodeSlot(dc, info, st, root1, ft,
                       decodeField(dc, info.tag, ft, fieldValue(st, root1, info.path, 1)))

\* The closure validate passes to iterate, on one index entry.
validateStep(dc, info) ==
    IF ~filterApply(dc, info) THEN dc
    ELSE LET st == PtrElem[dc.cache.CachedType]
             root1 == allocPath(st, dc.root, info.path, 1)
         IN stepReturn(dc, root1,
                       validateField(dc, info.tag, fieldType(st, info.path, 1),
                                     fieldValue(st, root1, info.path, 1)))

\* The entries of a keyed bucket for the keys in the order the range over
\* the container's map yields them.
RECURSIVE entriesFor(_, _)
entriesFor(bucket, keys) ==
    IF Len(keys) = 0 THEN <<>>
    ELSE Lookup(bucket, keys[1]) \o entriesFor(bucket, Tail(keys))

\* The keys of a bucket in some order.
RECURSIVE KeySeq(_)
KeySeq(S) == IF S = {} THEN <<>> ELSE LET k == CHOOSE x \in S : TRUE IN <<k>> \o KeySeq(S \ {k})

\* visitList of an iteration that ranges over the keys of the index instead
\* of the keys of the container.
visitListIndex(c, aord, lord) ==
    c.NameFastAccess \o c.NamespaceFastAccess
      \o entriesFor(c.AnnotationFastAccess, KeySeq(DOMAIN c.AnnotationFastAccess))
      \o entriesFor(c.LabelsFastAccess, KeySeq(DOMAIN c.LabelsFastAccess))
      \o c.CustomFieldsFastAccess

\* The entries iterate visits, in its order; aord and lord are the orders in
\* which the ranges over the annotations and the labels yield their keys.
visitList(c, aord, lord) ==
    c.NameFastAccess \o c.NamespaceFastAccess
      \o entriesFor(c.AnnotationFastAccess, aord)
      \o entriesFor(c.LabelsFastAccess, lord)
      \o c.CustomFieldsFastAccess

\* iterate from entry i on; phase says which closure runs.
RECURSIVE iterate(_, _, _, _)
\* iterateNext of an iteration that drops the error of the closure and goes
\* on.
iterateNextOn(d1, infos, i, phase) == iterate(d1, infos, i + 1, phase)

\* iterate after the closure ran on entry i and left d1: an error the
\* closure returned ends the iteration.
iterateNext(d1, infos, i, phase) ==
    IF d1.stop THEN [d1 EXCEPT !.failed = TRUE] ELSE iterate(d1, infos, i + 1, phase)

\* The closure of the phase on one index entry.
iterateStep(d0, info, phase) ==
    IF phase = "validate" THEN validateStep(d0, info) ELSE decodeStep(d0, info)

iterate(dc, infos, i, phase) ==
    IF i > Len(infos)
    THEN [dc EXCEPT !.failed = Len(dc.fieldErrors) > 0,
                    !.aggregate = Len(dc.fieldErrors) > 0]
    ELSE iterateNext(iterateStep([dc EXCEPT !.visited =
                                     Append(@, [phase |-> phase, path |-> infos[i].path])],
                                 infos[i], phase),
                     infos, i, phase)

validate(dc, infos) == iterate(dc, infos, 1, "validate")

decode(dc, infos) == iterate(dc, infos, 1, "decode")

\* The error a call returned: kind is "none", "tag" (index construction),
\* "validate" or "decode" (the phase that failed); list is the fieldErrors
\* of the decodeError in its chain, if there is one.
NoError == [kind |-> "none", aggregate |-> FALSE, list |-> <<>>]

\* GetErrorList: nil (the empty list) unless a decodeError is in the chain.
GetErrorList(e) == IF e.aggregate THEN e.list ELSE <<>>

\* Decoder.Decode(meta, &root, options...) with the cache slot holding c:
\* [err, root, cache, visited].
\* What Decode returns when the phase named kind left the context dc.
phaseReturn(dc, kind) ==
    [err |-> IF dc.failed
             THEN [kind |-> kind, aggregate |-> dc.aggregate, list |-> dc.fieldErrors]
             ELSE NoError,
     root |-> dc.root, cache |-> dc.cache, visited |-> dc.visited]

\* Decode after the validation phase left dc1.
afterValidate(dc1, infos) ==
    IF dc1.failed THEN phaseReturn(dc1, "validate")
    ELSE phaseReturn(decode(dc1, infos), "decode")

\* Decode on the context dc0: the validation, if asked for, then the decoding.
runPhases(dc0, infos) ==
    afterValidate(IF dc0.performValidation THEN validate(dc0, infos) ELSE dc0, infos)

\* Decode once the index is there: built is [err, c], c0 the cache slot
\* before the call.
decodeWithIndex(built, c0, m, root, opts, aord, lord) ==
    IF built.err
    THEN [err |-> [kind |-> "tag", aggregate |-> FALSE, list |-> <<>>],
          root |-> root, cache |-> c0, visited |-> <<>>]
    ELSE runPhases([cache |-> built.c, root |-> root, meta |-> m,
                    fieldErrors |-> <<>>,
                    performValidation |-> opts.validate,
                    accumulateFieldErrors |-> opts.accumulate,
                    immutablesOnly |-> opts.immutablesOnly,
                    stop |-> FALSE, failed |-> FALSE, aggregate |-> FALSE,
                    visited |-> <<>>],
                   visitList(built.c, aord, lord))

cacheMissNil(c, t) == c.CachedType = ""

\* cache == nil || cache.CachedType != root.Type(), for a record of type t
cacheMiss(c, t) == c.CachedType # PtrTo(t)

\* An index result [err, c] with the note whether its construction ran.
withBuilt(r, b) == [err |-> r.err, c |-> r.c, built |-> b]

\* The index a call of the Decode with the atomic slot works with: the one
\* loaded from the slot, or a new one: [err, c, built].
loadIndex(c, t) ==
    IF cacheMiss(c, t) THEN withBuilt(newCache(PtrTo(t)), TRUE)
    ELSE [err |-> FALSE, c |-> c, built |-> FALSE]

\* Decode of the Decoder with the atomic slot: on a tag error nothing is
\* stored.
Decode(c, m, t, root, opts, aord, lord) ==
    decodeWithIndex(loadIndex(c, t), c, m, root, opts, aord, lord)

\* c.build(root), the index built in the Decoder's own cache value: the
\* buckets are reset and filled by the visit, and CachedType is assigned
\* after a visit without error only: [err, c, built].
build(c, root) ==
    IF c.CachedType = root THEN [err |-> FALSE, c |-> c, built |-> FALSE]
    ELSE LET r == visit(<< [t |-> root, p |-> <<>>] >>, {},
                        [emptyCache EXCEPT !.CachedType = c.CachedType])
         IN IF r.err THEN [err |-> TRUE, c |-> r.c, built |-> TRUE]
            ELSE [err |-> FALSE, c |-> [r.c EXCEPT !.CachedType = root],
                  built |-> TRUE]

\* Decode of the Decoder that owns its cache value: dec.cache is what build
\* left, also when build failed.
decodeOnBuilt(b, m, root, opts, aord, lord) ==
    decodeWithIndex(b, b.c, m, root, opts, aord, lord)

DecodeInPlace(c, m, t, root, opts, aord, lord) ==
    decodeOnBuilt(build(c, PtrTo(t)), m, root, opts, aord, lord)

-----------------------------------------------------------------------------
(* Encode driver *)

MapSet(mp, k, v) == [mp EXCEPT !.m = [x \in DOMAIN mp.m \cup {k} |-> IF x = k THEN v ELSE mp.m[x]]]
MapDelete(mp, k) == [mp EXCEPT !.m = [x \in DOMAIN mp.m \ {k} |-> mp.m[x]]]

\* The fields of struct v of type t from field i on, as structFields:
\* [err, values]
RECURSIVE structFieldsFrom(_, _, _)
\* The structField of field i, whose tag parsed to p, before those of the
\* fields after it (rs).
structFieldCons(t, v, i, p, rs) ==
    IF p.err THEN [err |-> TRUE, values |-> <<>>]
    ELSE IF rs.err THEN rs
    ELSE [err |-> FALSE,
          values |-> << [value |-> v[i], type |-> StructFields(t)[i].type,
                         isNil |-> p.isNil, tag |-> p.pt] >> \o rs.values]

structFieldsFrom(t, v, i) ==
    IF i > NumField(t) THEN [err |-> FALSE, values |-> <<>>]
    ELSE structFieldCons(t, v, i, parseTag(StructFields(t)[i].tag),
                         structFieldsFrom(t, v, i + 1))

\* appendFieldValues, the append of the structFields r found.
appendValues(values, r) ==
    IF r.err THEN [err |-> TRUE, values |-> <<>>]
    ELSE [err |-> FALSE, values |-> values \o r.values]

\* An appendFieldValues that allocates the struct of a nil pointer, as
\* fieldByIndexWithAlloc does for Decode.
appendFieldValuesAlloc(values, t, v) ==
    LET isPtr == Kind(t) = "ptr"
        dt == IF isPtr THEN PtrElem[t] ELSE t
    IN IF Kind(dt) # "struct" THEN [err |-> FALSE, values |-> values]
       ELSE appendValues(values,
                structFieldsFrom(dt, IF ~isPtr THEN v
                                     ELSE IF v = <<>> THEN Zero(dt) ELSE v[1], 1))

\* appendFieldValues(values, v) for v of type t: v is dereferenced; what is
\* not a struct (a nil pointer included) adds nothing.  [err, values]
appendFieldValues(values, t, v) ==
    LET isPtr == Kind(t) = "ptr"
        dt == IF isPtr THEN PtrElem[t] ELSE t
    IN IF isPtr /\ v = <<>> THEN [err |-> FALSE, values |-> values]
       ELSE IF Kind(dt) # "struct" THEN [err |-> FALSE, values |-> values]
       ELSE appendValues(values, structFieldsFrom(dt, IF isPtr THEN v[1] ELSE v, 1))

\* encodeField, the conversion the switch on tag.source selects: [err, s]
encodeBySource(dv, ord) ==
    IF dv.tag.source \in {name, namespace}
    THEN encodePrimitive(dv.type, dv.value, ord)
    ELSE encode(dv.type, dv.value, dv.tag.enc, ord)

\* encodeField, the store of the text r the conversion returned.
encodeStore(m, tag, r) ==
    IF r.err THEN [err |-> TRUE, meta |-> m]
    ELSE [err |-> FALSE,
          meta |-> CASE tag.source = name -> [m EXCEPT !.name = r.s]
                     [] tag.source = namespace -> [m EXCEPT !.namespace = r.s]
                     [] tag.source = label ->
                          [m EXCEPT !.labels = MapSet(@, tag.value, r.s)]
                     [] tag.source = annotation ->
                          [m EXCEPT !.annotations = MapSet(@, tag.value, r.s)]
                     [] tag.source = undefined -> m]

\* encodeField that skips an omitempty field that is zero instead of
\* removing its key.
encodeFieldSkip(m, dv, ord) ==
    IF dv.isNil \/ dv.tag.dir = in \/ dv.tag.inline THEN [err |-> FALSE, meta |-> m]
    ELSE IF dv.tag.omitempty /\ IsZero(dv.type, dv.value)
    THEN [err |-> FALSE, meta |-> m]
    ELSE encodeStore(m, dv.tag, encodeBySource(dv, ord))

\* encodeField: [err, meta]
encodeField(m, dv, ord) ==
    IF dv.isNil \/ dv.tag.dir = in \/ dv.tag.inline THEN [err |-> FALSE, meta |-> m]
    ELSE IF dv.tag.omitempty /\ IsZero(dv.type, dv.value)
    THEN [err |-> FALSE,
          meta |-> CASE dv.tag.source = label ->
                          [m EXCEPT !.labels = MapDelete(@, dv.tag.value)]
                     [] dv.tag.source = annotation ->
                          [m EXCEPT !.annotations = MapDelete(@, dv.tag.value)]
                     [] OTHER -> m]
    ELSE encodeStore(m, dv.tag, encodeBySource(dv, ord))

\* The loop of Encode over the stack of structFields: the last one is taken;
\* the fields of an inline field are pushed after it was processed.
RECURSIVE encodeLoop(_, _, _)
\* The loop after the fields of an inline field were pushed (a).
encodePushed(m, a, ord) ==
    IF a.err THEN [err |-> "tag", meta |-> m] ELSE encodeLoop(m, a.values, ord)

\* The loop of an Encode that goes on after a conversion error and reports
\* it at the end.
encodeNextAll(v, rest, r, ord) ==
    IF r.err
    THEN [encodeLoop(r.meta, rest, ord) EXCEPT !.err = "field"]
    ELSE IF ~v.isNil /\ v.tag.inline
    THEN encodePushed(r.meta, appendFieldValues(rest, v.type, v.value), ord)
    ELSE encodeLoop(r.meta, rest, ord)

\* The loop after encodeField returned r for the structField v taken off
\* the stack, which left rest.
encodeNext(v, rest, r, ord) ==
    IF r.err THEN [err |-> "field", meta |-> r.meta]
    ELSE IF ~v.isNil /\ v.tag.inline
    THEN encodePushed(r.meta, appendFieldValues(rest, v.type, v.value), ord)
    ELSE encodeLoop(r.meta, rest, ord)

encodeLoop(m, values, ord) ==
    IF Len(values) = 0 THEN [err |-> "none", meta |-> m]
    ELSE encodeNext(values[Len(values)], SubSeq(values, 1, Len(values) - 1),
                    encodeField(m, values[Len(values)], ord), ord)

\* An Encode that takes the maps of the container as they are.
withMapsAsIs(m) == m

\* The container after Encode took its maps: a nil map is replaced by a new
\* one, which is installed in the container.
withMaps(m) ==
    [m EXCEPT !.annotations = [@ EXCEPT !.nil = FALSE],
              !.labels = [@ EXCEPT !.nil = FALSE]]

\* Encoder.Encode(&root, meta) for root of struct type t: [err, meta]
Encode(t, root, m, ord) ==
    encodePushed(withMaps(m), appendFieldValues(<<>>, PtrTo(t), <<root>>), ord)

-----------------------------------------------------------------------------
(* The values and containers the calls are made on *)

Txt1(a) == <<a>>
Txt3(a, b, c) == <<a, b, c>>

\* The record types the calls of Spec are made on, and those of the round trip.
BadTypes == {"BadTok", "BadKey", "BadEnc", "BadIn"}

MainTypes ==
    {"Imm", "Ali", "Opt", "Non", "Dir", "Ptr", "Deep", "Twin", "Cus", "Nest"} \cup BadTypes
RoundTripTypes == {"Sca", "Com"}

RECURSIVE Samples(_)
RECURSIVE SampleStructs(_, _)

\* All structs of type t whose fields from i on are samples of their types.
SampleStructs(t, i) ==
    IF i > NumField(t) THEN {<<>>}
    ELSE {<<v>> \o r : v \in Samples(StructFields(t)[i].type), r \in SampleStructs(t, i + 1)}

\* The values of type t a record is made of.
Samples(t) ==
    CASE t = "bool" -> {FALSE, TRUE}
      [] t = "int8" -> {0, 1}
      [] t = "uint8" -> {0, 1}
      [] t = "string" -> {<<>>, <<"a">>}
      [] t = "[2]int8" -> {<<0, 0>>, <<1, 2>>}
      [] t = "*int8" -> {<<>>, <<1>>}
      [] t = "map[string]string" ->
           {[nil |-> TRUE, m |-> <<>>], [nil |-> FALSE, m |-> (<<"B">> :> <<"b">>)]}
      [] t = "Option[int8]" ->
           {[isSet |-> FALSE, value |-> 0], [isSet |-> TRUE, value |-> 0],
            [isSet |-> TRUE, value |-> 1]}
      [] t = "*Inner" -> {<<>>} \cup {<<x>> : x \in SampleStructs("Inner", 1)}
      [] t = "*Leaf" -> {<<>>} \cup {<<x>> : x \in SampleStructs("Leaf", 1)}
      [] t = "Mid" -> {<<0, p, 1>> : p \in Samples("*Leaf")}
      [] t = "Deep" -> {<<1, m, 0>> : m \in Samples("Mid")}
      [] t \in StructTypes \ {"Mid", "Deep"} -> SampleStructs(t, 1)

\* The values of the round trip: zero, empty and nil values, and the ends
\* of the integer ranges.
RoundTripSamples(t) ==
    CASE t = "bool" -> {FALSE, TRUE}
      [] t = "int8" -> {-128, 0, 127}
      [] t = "int16" -> {-32768, 0, 32767}
      [] t = "uint8" -> {0, 255}
      [] t = "uint16" -> {0, 65535}
      [] t = "string" -> {<<>>, <<"a", "b">>}
      [] t = "[2]int8" -> {<<0, 0>>, <<-1, 2>>}
      [] t = "[]int8" ->
           {[nil |-> TRUE, e |-> <<>>], [nil |-> FALSE, e |-> <<>>],
            [nil |-> FALSE, e |-> <<1, -2>>]}
      [] t = "[]string" ->
           {[nil |-> TRUE, e |-> <<>>], [nil |-> FALSE, e |-> << <<>> >>],
            [nil |-> FALSE, e |-> << <<"a">>, <<"b">> >>]}
      [] t = "map[string]int8" ->
           {[nil |-> TRUE, m |-> <<>>], [nil |-> FALSE, m |-> <<>>],
            [nil |-> FALSE, m |-> (<<"A">> :> 1) @@ (<<"B">> :> 2)]}
      [] t = "*int8" -> {<<>>, <<0>>, <<5>>}
      [] t = "*string" -> {<<>>, << <<>> >>, << <<"a">> >>}

RECURSIVE RoundTripStructs(_, _)
RoundTripStructs(t, i) ==
    IF i > NumField(t) THEN {<<>>}
    ELSE {<<v>> \o r : v \in RoundTripSamples(StructFields(t)[i].type),
                       r \in RoundTripStructs(t, i + 1)}

\* The orders in which the iteration over a map of a record may yield its keys.
MapOrders == {<< <<"A">>, <<"B">> >>, << <<"B">>, <<"A">> >>}

\* The texts a container may hold under the annotation keys of type t.
AnnotationTexts(t) ==
    CASE t = "Imm" -> ("one" :> {<<"0">>, <<"1">>, <<"x">>}) @@ ("two" :> {<<"1">>, <<"x">>})
                        @@ ("three" :> {<<"1">>})
      [] t = "Ali" -> ("k" :> {<<"1">>}) @@ ("a1" :> {<<"2">>, <<"x">>}) @@ ("a2" :> {<<"3">>})
      [] t = "Opt" -> ("j" :> {<<"1">>, <<"n", "u", "l", "l">>, <<"x">>})
                        @@ ("o" :> {<<"1">>, <<"x">>})
      [] t = "Dir" -> ("i" :> {<<"1">>, <<"x">>}) @@ ("u" :> {<<"1">>})
      [] t = "Ptr" -> ("v" :> {<<"1">>, <<"x">>})
      [] t \in {"Deep", "Twin"} -> ("iks" :> {<<"t">>})
      [] t \in BadTypes -> ("f" :> {<<"1">>})
      [] t = "Non" -> ("n" :> {<<"1">>, <<>>})
      [] t = "Cus" -> ("a" :> {<<"1">>}) @@ ("s" :> {<<"1">>})
      [] t = "Nest" -> ("z" :> {<<"1">>}) @@ ("iks" :> {<<"t">>})

\* The texts a container may hold under the label keys of type t.
LabelTexts(t) ==
    CASE t = "Imm" -> <<>>
      [] t = "Ali" -> ("y" :> {<<"1">>, <<"-", "1">>})
      [] t = "Opt" -> ("m" :> {<<"A", ":", "a">>, <<"x">>})
      [] t = "Dir" -> ("l" :> {<<"a">>})
      [] t = "Ptr" -> ("w" :> {<<"1", ",", "2">>, <<"1", ",", "x">>, <<"1">>})
      [] t = "Cus" -> ("c" :> {<<"1">>})
      [] t \in {"Deep", "Twin", "Non", "Nest"} \cup BadTypes -> <<>>

\* The names and namespaces a container may have for type t.
NameTexts(t) == IF t = "Ptr" THEN {<<"q">>} ELSE {<<>>}
NamespaceTexts(t) == IF t = "Dir" THEN {<<"n">>} ELSE {<<>>}

\* The Go maps with keys among those of texts and a text of the key's set
\* under each; the map without keys is either nil or empty.
MapsOver(texts) ==
    LET fs == UNION {{f \in [S -> UNION {texts[k] : k \in S}] : \A k \in S : f[k] \in texts[k]}
                     : S \in SUBSET DOMAIN texts}
    IN {[nil |-> FALSE, m |-> f] : f \in fs} \cup {[nil |-> TRUE, m |-> <<>>]}

Containers(t) ==
    [name : NameTexts(t), namespace : NamespaceTexts(t),
     labels : MapsOver(LabelTexts(t)), annotations : MapsOver(AnnotationTexts(t))]

emptyContainers ==
    {[name |-> <<>>, namespace |-> <<>>,
      labels |-> [nil |-> n, m |-> <<>>], annotations |-> [nil |-> n, m |-> <<>>]]
     : n \in BOOLEAN}

\* The orders in which a range over a Go map may yield the keys S.
Perms(S) == {f \in [1..Cardinality(S) -> S] : \A i, j \in 1..Cardinality(S) : f[i] = f[j] => i = j}

DecodeOptions == [validate : BOOLEAN, accumulate : BOOLEAN, immutablesOnly : BOOLEAN]

noOptions == [validate |-> FALSE, accumulate |-> FALSE, immutablesOnly |-> FALSE]

-----------------------------------------------------------------------------
(* The state machine: a caller that owns a record, a container and a        *)
(* Decoder, and calls Decode and Encode.                                    *)

noCall ==
    [op |-> "none", opts |-> noOptions, err |-> NoError, rec |-> <<>>,
     meta |-> <<>>, cache |-> emptyCache, visited |-> <<>>]

Init ==
    /\ rtype \in MainTypes
    /\ rec \in Samples(rtype)
    /\ meta \in Containers(rtype)
    /\ cache = emptyCache
    /\ last = noCall
    /\ nops = 0
    /\ saved = <<>>
    /\ calls = <<>>
    /\ stores = <<>>
    /\ variant = "atomic"

\* The caller's state after Decode returned r: the record it passed by
\* pointer and the Decoder's cache slot are what the call left.
decodeReturns(r, opts) ==
    /\ rec' = r.root
    /\ cache' = r.cache
    /\ last' = [op |-> "decode", opts |-> opts, err |-> r.err, rec |-> rec,
                meta |-> meta, cache |-> cache, visited |-> r.visited]

\* The caller's state after Encode returned r: the container is what the
\* call left.
encodeReturns(r) ==
    /\ meta' = r.meta
    /\ last' = [op |-> "encode", opts |-> noOptions,
                err |-> [kind |-> r.err, aggregate |-> FALSE, list |-> <<>>],
                rec |-> rec, meta |-> meta, cache |-> cache, visited |-> <<>>]

\* dec.Decode(meta, &rec, options...)
DecodeCall ==
    /\ nops < MaxOps
    /\ \E opts \in DecodeOptions :
       \E aord \in Perms(DOMAIN meta.annotations.m) :
       \E lord \in Perms(DOMAIN meta.labels.m) :
          decodeReturns(Decode(cache, meta, rtype, rec, opts, aord, lord), opts)
    /\ nops' = nops + 1
    /\ UNCHANGED <<rtype, meta, saved, calls, stores, variant>>

\* enc.Encode(&rec, meta)
EncodeCall ==
    /\ nops < MaxOps
    /\ \E ord \in MapOrders :
          encodeReturns(Encode(rtype, rec, meta, ord))
    /\ nops' = nops + 1
    /\ UNCHANGED <<rtype, rec, cache, saved, calls, stores, variant>>

Next == DecodeCall \/ EncodeCall

Spec == Init /\ [][Next]_vars

-----------------------------------------------------------------------------
(* The round trip: a record is encoded into an empty container, which is    *)
(* then decoded into a zero record of the same type.                        *)

RoundTripInit ==
    /\ rtype \in RoundTripTypes
    /\ rec \in RoundTripStructs(rtype, 1)
    /\ meta \in emptyContainers
    /\ cache = emptyCache
    /\ last = noCall
    /\ nops = 0
    /\ saved = <<>>
    /\ calls = <<>>
    /\ stores = <<>>
    /\ variant = "atomic"

RoundTripEncode ==
    /\ last.op = "none"
    /\ \E ord \in MapOrders :
          encodeReturns(Encode(rtype, rec, meta, ord))
    /\ saved' = rec
    /\ rec' = Zero(rtype)
    /\ nops' = nops + 1
    /\ UNCHANGED <<rtype, cache, calls, stores, variant>>

RoundTripDecode ==
    /\ last.op = "encode"
    /\ last.err.kind = "none"
    /\ \E aord \in Perms(DOMAIN meta.annotations.m) :
       \E lord \in Perms(DOMAIN meta.labels.m) :
          decodeReturns(Decode(cache, meta, rtype, rec, noOptions, aord, lord), noOptions)
    /\ nops' = nops + 1
    /\ UNCHANGED <<rtype, meta, saved, calls, stores, variant>>

RoundTripNext == RoundTripEncode \/ RoundTripDecode

RoundTripSpec == RoundTripInit /\ [][RoundTripNext]_vars

-----------------------------------------------------------------------------
(* The conversion of one text into one slot: rtype is the type of the slot,  *)
(* rec the value it holds, meta the text; the index and the container play   *)
(* no part.                                                                  *)

ConvTypes == {"bool", "int8", "int16", "uint8", "uint16", "[2]int8"}

\* The spellings of a word in every letter case.
RECURSIVE Cases(_)
Cases(pairs) ==
    IF Len(pairs) = 0 THEN {<<>>}
    ELSE {<<c>> \o rest : c \in {pairs[1][1], pairs[1][2]}, rest \in Cases(Tail(pairs))}

TrueCases == Cases(<< <<"t", "T">>, <<"r", "R">>, <<"u", "U">>, <<"e", "E">> >>)

FalseCases ==
    Cases(<< <<"f", "F">>, <<"a", "A">>, <<"l", "L">>, <<"s", "S">>, <<"e", "E">> >>)

BoolTexts ==
    TrueCases \cup FalseCases \cup
    {<<"1">>, <<"0">>, <<"t">>, <<"T">>, <<"f">>, <<"F">>, <<>>, <<"2">>,
     <<"y">>, <<"n">>, <<"o", "n">>, <<"y", "e", "s">>, <<"n", "o">>,
     <<"t", "r", "u">>, <<"t", "r", "u", "e", "e">>, <<"0", "1">>,
     <<"1", "0">>, <<"-", "1">>, <<"+", "1">>, <<" ", "1">>, <<"1", " ">>}

\* Texts that are not decimal numbers, or are so with a sign or zeros ahead.
OddNumberTexts ==
    {<<>>, <<"x">>, <<"1", "x">>, <<"0", "x", "1">>, <<"1", ".", "0">>,
     <<"1", "e", "2">>, <<" ", "1">>, <<"1", " ">>, <<"-">>, <<"+">>,
     <<"-", "-", "1">>, <<"1", "_", "0">>, <<"0", "b", "1">>, <<"a">>,
     <<"+", "5">>, <<"-", "0">>, <<"0", "0", "7">>, <<"+", "0", "1">>,
     <<"-", "0", "1", "2", "8">>, <<"0", "1", "2", "8">>, <<"0", "2", "5", "6">>}

\* The decimal texts of the numbers around the limits of the widths.
Around(n) == {n - 2, n - 1, n, n + 1, n + 2}

LimitNumbers ==
    Around(0) \cup Around(127) \cup Around(-128) \cup Around(255) \cup Around(-256)
    \cup Around(32767) \cup Around(-32768) \cup Around(65535) \cup Around(-65536)
    \cup {384, -384, 98304, -98304, 131072, 999999, -999999}

NumberTexts == {FormatInt(n) : n \in LimitNumbers} \cup OddNumberTexts

ArrayTexts ==
    {Join(items, itemSeparator) :
        items \in UNION {[1..n -> {<<>>, <<"1">>, <<"-", "2">>, <<"x">>, <<"1", "2", "8">>}]
                         : n \in 1..2}}
    \cup {Join(items, itemSeparator) : items \in [1..3 -> {<<>>, <<"1">>, <<"x">>}]}
    \cup {Join([i \in 1..4 |-> <<"1">>], itemSeparator)}

ConvTexts(t) ==
    CASE t = "bool" -> BoolTexts
      [] Kind(t) \in {"int", "uint"} -> NumberTexts
      [] Kind(t) = "array" -> ArrayTexts

ConvSamples(t) ==
    CASE t = "bool" -> BOOLEAN
      [] Kind(t) \in {"int", "uint"} -> {0, 5}
      [] Kind(t) = "array" -> {<<0, 0>>, <<5, 6>>}

ConvInit ==
    /\ rtype \in ConvTypes
    /\ rec \in ConvSamples(rtype)
    /\ meta \in ConvTexts(rtype)
    /\ cache = emptyCache
    /\ last = noCall
    /\ nops = 0
    /\ saved = <<>>
    /\ calls = <<>>
    /\ stores = <<>>
    /\ variant = "atomic"

\* The slot and the error after the conversion returned r.
convertReturns(r) ==
    /\ rec' = r.v
    /\ last' = [noCall EXCEPT !.op = "convert",
                              !.err = [kind |-> IF r.err THEN "field" ELSE "none",
                                       aggregate |-> FALSE, list |-> <<>>],
                              !.rec = rec, !.meta = meta]

\* decodeWithEncoder(rec, meta, undefined) on the slot
Convert ==
    /\ nops = 0
    /\ convertReturns(decodeWithEncoder(rtype, rec, meta, undefined))
    /\ nops' = 1
    /\ UNCHANGED <<rtype, meta, cache, saved, calls, stores, variant>>

ConvNext == Convert

ConvSpec == ConvInit /\ [][ConvNext]_vars

-----------------------------------------------------------------------------
(* Concurrent callers: goroutines that share one Decoder and call Decode,    *)
(* each on its own record and its own container.  A call is the sequence of  *)
(* steps of Decoder.Decode; the cache slot is an atomic pointer, so a Load   *)
(* and a Store are one step each, and what a call does between them and      *)
(* after them touches only what the call owns.                               *)

Procs == 1..NumProcs

ConcTypes == {"Imm", "Ali", "BadTok"}

ConcRecord(t) == Zero(t)

ConcMeta(t) ==
    [name |-> <<>>, namespace |-> <<>>,
     labels |-> [nil |-> TRUE, m |-> <<>>],
     annotations |->
        [nil |-> FALSE,
         m |-> CASE t = "Imm" -> ("one" :> <<"1">>) @@ ("three" :> <<"1">>)
                 [] t = "Ali" -> ("k" :> <<"1">>)
                 [] t = "BadTok" -> ("f" :> <<"1">>)]]

\* cache == nil || cache.CachedType != root.Type(), for a call that looks at
\* nothing but whether the slot was empty.
\* The call of goroutine p can take its step at: Decode takes no lock and
\* waits for nothing, so where the call is decides it alone.
ready(p, at) == calls[p].pc = at

ConcInit ==
    /\ rtype = ""
    /\ rec = <<>>
    /\ meta = <<>>
    /\ cache = emptyCache
    /\ last = noCall
    /\ nops = 0
    /\ saved = <<>>
    /\ calls \in [Procs -> {[pc |-> "load", type |-> t, rec |-> ConcRecord(t),
                             meta |-> ConcMeta(t), local |-> emptyCache,
                             err |-> NoError] : t \in ConcTypes}]
    /\ stores = <<>>
    /\ variant = "atomic"

\* cache := dec.cache.Load(), and the test of what was loaded
Load(p) ==
    /\ ready(p, "load")
    /\ calls' = [calls EXCEPT ![p].local = cache,
                              ![p].pc = IF cacheMiss(cache, calls[p].type)
                                        THEN "build" ELSE "iterate"]
    /\ UNCHANGED <<rtype, rec, meta, cache, last, nops, saved, stores, variant>>

\* The call after newCache returned b: it returns the error, or goes on with
\* the new index.
buildReturns(p, b) ==
    calls' = [calls EXCEPT ![p].local = IF b.err THEN @ ELSE b.c,
                           ![p].err = IF b.err
                                      THEN [kind |-> "tag", aggregate |-> FALSE,
                                            list |-> <<>>]
                                      ELSE @,
                           ![p].pc = IF b.err THEN "done" ELSE "store"]

\* cache, err = newCache(root.Type())
Build(p) ==
    /\ ready(p, "build")
    /\ buildReturns(p, newCache(PtrTo(calls[p].type)))
    /\ UNCHANGED <<rtype, rec, meta, cache, last, nops, saved, stores, variant>>

\* dec.cache.Store(cache)
Store(p) ==
    /\ ready(p, "store")
    /\ cache' = calls[p].local
    /\ stores' = Append(stores, p)
    /\ calls' = [calls EXCEPT ![p].pc = "iterate"]
    /\ UNCHANGED <<rtype, rec, meta, last, nops, saved, variant>>

\* The call after its phases returned r.
iterateReturns(p, r) ==
    calls' = [calls EXCEPT ![p].rec = r.root, ![p].err = r.err, ![p].pc = "done"]

\* validate and decode with the index the call holds, on its own record and
\* container
Iterate(p) ==
    /\ ready(p, "iterate")
    /\ \E aord \in Perms(DOMAIN calls[p].meta.annotations.m) :
       \E lord \in Perms(DOMAIN calls[p].meta.labels.m) :
          iterateReturns(p, decodeWithIndex([err |-> FALSE, c |-> calls[p].local],
                                            calls[p].local, calls[p].meta,
                                            calls[p].rec, noOptions, aord, lord))
    /\ UNCHANGED <<rtype, rec, meta, cache, last, nops, saved, stores, variant>>

Step(p) == Load(p) \/ Build(p) \/ Store(p) \/ Iterate(p)

ConcNext == \E p \in Procs : Step(p)

ConcSpec == ConcInit /\ [][ConcNext]_vars

-----------------------------------------------------------------------------
(* Vocabulary of the properties.  After a call, last holds the record, the  *)
(* container and the cache slot as they were before it, the options and    *)
(* the error returned; rec, meta and cache are what the call left.         *)

SeqSet(q) == {q[i] : i \in 1..Len(q)}

BucketEntries(b) == UNION {SeqSet(b[k]) : k \in DOMAIN b}

\* The entries of an index, whatever the container holds.
IndexEntries(c) ==
    SeqSet(c.NameFastAccess) \cup SeqSet(c.NamespaceFastAccess)
      \cup BucketEntries(c.AnnotationFastAccess) \cup BucketEntries(c.LabelsFastAccess)
      \cup SeqSet(c.CustomFieldsFastAccess)

\* The index of the record type of the state.
TypeIndex == newCache(PtrTo(rtype)).c

DecodeDone == last.op = "decode" /\ last.err.kind # "tag"

EncodeDone == last.op = "encode"

\* The type of the field of an index entry, and its value in a record v
\* (the zero value when a nil pointer is on the way to it).
SlotType(info) == fieldType(rtype, info.path, 1)

SlotIn(v, info) == fieldValue(rtype, allocPath(rtype, v, info.path, 1), info.path, 1)

LiveBefore(info) == SlotIn(last.rec, info)

LiveAfter(info) == SlotIn(rec, info)

\* The map of a container an entry is read from or written to.
MapOf(m, tag) == IF tag.source = label THEN m.labels ELSE m.annotations

Keyed(tag) == tag.source \in {annotation, label}

PrimaryPresent(m, tag) == MapHas(MapOf(m, tag), tag.value)

\* The keys of a tag, the declared key first, then the aliases as declared.
KeysOf(tag) == <<tag.value>> \o tag.aliases

SomeKeyPresent(m, tag) == \E i \in 1..Len(KeysOf(tag)) : MapHas(MapOf(m, tag), KeysOf(tag)[i])

\* The text under the first key of the tag that the container holds.
FirstPresentText(m, tag) ==
    LET ks == KeysOf(tag)
        i == CHOOSE j \in 1..Len(ks) :
                /\ MapHas(MapOf(m, tag), ks[j])
                /\ \A h \in 1..(j - 1) : ~MapHas(MapOf(m, tag), ks[h])
    IN MapGet(MapOf(m, tag), ks[i])

\* The context of the call that was made, as the closures see it.
CallContext ==
    [meta |-> last.meta, accumulateFieldErrors |-> last.opts.accumulate, fieldErrors |-> <<>>]

\* The conversion of the text the container held for an entry into its field.
Converted(info) ==
    decodeBySource(info.tag, SlotType(info), LiveBefore(info), sourceText(CallContext, info.tag))

\* An entry the closures of the call act on: the filter passes it.
Selected(info) == last.opts.immutablesOnly => (info.tag.immutable \/ info.tag.setOnce)

\* The entries a phase of the call visited, in order.
VisitedIn(phase) == SelectSeq(last.visited, LAMBDA e : e.phase = phase)

PathsIn(phase) == {e.path : e \in SeqSet(VisitedIn(phase))}

\* The number of entries of the returned field-error list for an entry.
ListEntries(info) ==
    Cardinality({i \in 1..Len(GetErrorList(last.err)) :
                    /\ GetErrorList(last.err)[i].source = info.tag.source
                    /\ GetErrorList(last.err)[i].key = info.tag.value})

\* The entry at which a call without accumulation stopped.
StoppedAt(phase, info) ==
    /\ last.err.kind = phase
    /\ ~last.err.aggregate
    /\ VisitedIn(phase)[Len(VisitedIn(phase))].path = info.path

-----------------------------------------------------------------------------
(* Properties *)

\* C1: the round trip. After Encode of a record into an empty container and
\* Decode of that container into a zero record of the same type, Decode
\* returned no error and the record decoded equals the record encoded.
C1_RoundTrip ==
    /\ (last.op = "encode") => (last.err.kind = "none")
    /\ (last.op = "decode") => (last.err.kind = "none" /\ equal(rec, saved))

\* C2: alias precedence. After a Decode without error, a field with aliases
\* whose container holds one of its keys with a text that converts has the
\* value converted from the text under the first of its keys that is
\* present: the declared key, then the aliases in declared order.
C2_AliasPrecedence ==
    (DecodeDone /\ last.err.kind = "none" /\ ~last.opts.immutablesOnly) =>
        \A info \in IndexEntries(cache) :
            (/\ Keyed(info.tag)
             /\ Len(info.tag.aliases) > 0
             /\ info.tag.dir # out
             /\ SomeKeyPresent(last.meta, info.tag)) =>
                LET r == decodeWithEncoder(SlotType(info), LiveBefore(info),
                                           FirstPresentText(last.meta, info.tag),
                                           info.tag.enc)
                IN ~r.err => LiveAfter(info) = r.v

\* An entry the validation phase protects: immutable or setonce, a setonce
\* field with the zero value excepted.
Protected(info) ==
    /\ info.tag.setOnce \/ info.tag.immutable
    /\ ~(info.tag.setOnce /\ IsZero(SlotType(info), LiveBefore(info)))

\* The value the container records for an entry, converted into a zero
\* value of the field's type: [err, v].
Recorded(info) ==
    decodeBySource(info.tag, SlotType(info), Zero(SlotType(info)),
                   sourceText(CallContext, info.tag))

\* The live value of an entry differs from what the container records for
\* it (a text that does not convert differs from every value).
Differs(info) == Recorded(info).err \/ ~equal(LiveBefore(info), Recorded(info).v)

Violated(info) ==
    /\ Keyed(info.tag) => PrimaryPresent(last.meta, info.tag)
    /\ Protected(info)
    /\ IF info.tag.dir = out \/ info.tag.inline
       THEN ~IsZero(SlotType(info), LiveBefore(info))
       ELSE Differs(info)

C4_ValidationKeepsRecord ==
    (DecodeDone /\ last.opts.validate /\ last.err.kind = "validate") => rec = last.rec

\* The tag of a setonce field made the tag of an immutable field.
AsImmutable(tag) == [tag EXCEPT !.setOnce = FALSE, !.immutable = TRUE]

\* C5: a setonce field whose live value is the zero value never produces a
\* validation error, whatever the container holds for its key: it has no
\* entry in the list of a failed validation and a validation without
\* accumulation never stops at it.  With a non-zero live value the
\* validation of the field returns what it returns for an immutable field.
C5_SetOnce ==
    (DecodeDone /\ last.opts.validate) =>
        \A info \in IndexEntries(cache) :
            info.tag.setOnce =>
                IF IsZero(SlotType(info), LiveBefore(info))
                THEN /\ last.err.kind = "validate" => ListEntries(info) = 0
                     /\ ~StoppedAt("validate", info)
                ELSE validateField(CallContext, info.tag, SlotType(info), LiveBefore(info))
                       = validateField(CallContext, AsImmutable(info.tag), SlotType(info),
                                       LiveBefore(info))

\* C5, reached: a validation with accumulation whose container holds a
\* text that does not convert under the key of a setonce field that is zero,
\* which returned the entry of the other protected field only.
C5_Witness ==
    /\ DecodeDone /\ last.opts.validate /\ last.opts.accumulate
    /\ rtype = "Imm"
    /\ last.rec[2] = 0
    /\ PrimaryPresent(last.meta, [source |-> annotation, value |-> "two"])
    /\ last.meta.annotations.m["two"] = <<"x">>
    /\ PathsIn("validate") = {<<1>>, <<2>>, <<3>>}
    /\ last.err.kind = "validate"
    /\ Len(GetErrorList(last.err)) = 1

\* No nil pointer is on the way to the field at index[i..] of struct v.
RECURSIVE Reachable(_, _, _, _)
Reachable(t, v, index, i) ==
    IF i = Len(index) THEN TRUE
    ELSE IF Kind(StructFields(t)[index[i]].type) = "ptr"
    THEN /\ v[index[i]] # <<>>
         /\ Reachable(InnerStruct(t, index[i]), v[index[i]][1], index, i + 1)
    ELSE Reachable(InnerStruct(t, index[i]), v[index[i]], index, i + 1)

\* The structField Encode makes of an index entry of the record.
FieldValueOf(info) ==
    [value |-> LiveBefore(info), type |-> SlotType(info), isNil |-> FALSE, tag |-> info.tag]

\* An entry whose key Encode removes: a label or annotation tagged
\* omitempty, not tagged in, whose field Encode reaches and finds zero.
Omitted(info) ==
    /\ Keyed(info.tag)
    /\ info.tag.omitempty
    /\ info.tag.dir # in
    /\ Reachable(rtype, last.rec, info.path, 1)
    /\ IsZero(SlotType(info), LiveBefore(info))

\* Two Go maps agree on every key but k.
SameBut(m1, m2, k) ==
    /\ DOMAIN m1.m \ {k} = DOMAIN m2.m \ {k}
    /\ \A x \in DOMAIN m1.m \ {k} : m1.m[x] = m2.m[x]

\* C6: omitempty removal. After an Encode without error, the declared key
\* of every omitempty label or annotation field that is zero is absent from
\* its map; and encodeField on such a field, applied to the container of the
\* call, returns no error and a container that differs from it in that key
\* only.
C6_OmitemptyRemoves ==
    (EncodeDone /\ last.err.kind = "none") =>
        \A info \in IndexEntries(TypeIndex) :
            Omitted(info) =>
                /\ ~PrimaryPresent(meta, info.tag)
                /\ \A ord \in MapOrders :
                      LET m0 == withMaps(last.meta)
                          r == encodeField(m0, FieldValueOf(info), ord)
                      IN /\ ~r.err
                         /\ ~PrimaryPresent(r.meta, info.tag)
                         /\ r.meta.name = m0.name /\ r.meta.namespace = m0.namespace
                         /\ SameBut(r.meta.labels, m0.labels,
                                    IF info.tag.source = label THEN info.tag.value ELSE "")
                         /\ SameBut(r.meta.annotations, m0.annotations,
                                    IF info.tag.source = annotation THEN info.tag.value ELSE "")

\* C6, reached: an Encode of a record whose omitempty label field is empty
\* into a container that held the label.
C6_Witness ==
    /\ EncodeDone /\ last.err.kind = "none"
    /\ rtype = "Dir"
    /\ last.rec[3] = <<>>
    /\ MapHas(last.meta.labels, "l")
    /\ ~MapHas(meta.labels, "l")

\* The entries a phase visits whatever happens: the name and namespace
\* entries, the entries under the keys the container holds, the custom ones.
ToVisit ==
    {info \in IndexEntries(cache) : Keyed(info.tag) => PrimaryPresent(last.meta, info.tag)}

\* An entry the decode phase converts a text for.
Decoded(info) ==
    /\ info \in ToVisit
    /\ Selected(info)
    /\ info.tag.dir # out
    /\ ~info.tag.inline

\* C7: accumulation mode. With AccumulateFieldErrors, when the validation
\* did not fail, the decode phase visits every entry it has to visit, once;
\* a field whose text converts has the converted value; Decode returns an
\* error exactly when some conversion failed, and then an aggregate error
\* whose list has exactly one entry for each field that failed and no other.
C7_Accumulate ==
    (DecodeDone /\ last.opts.accumulate /\ last.err.kind # "validate") =>
        LET failing == {info \in IndexEntries(cache) : Decoded(info) /\ Converted(info).err}
        IN /\ PathsIn("decode") = {info.path : info \in ToVisit}
           /\ Len(VisitedIn("decode")) = Cardinality(ToVisit)
           /\ \A info \in IndexEntries(cache) :
                 /\ (Decoded(info) /\ ~Converted(info).err) => LiveAfter(info) = Converted(info).v
                 /\ ListEntries(info) = (IF info \in failing THEN 1 ELSE 0)
           /\ Len(GetErrorList(last.err)) = Cardinality(failing)
           /\ IF failing = {} THEN last.err.kind = "none"
              ELSE last.err.kind = "decode" /\ last.err.aggregate

\* C7, reached: a Decode with accumulation in which two fields failed and a
\* third was populated.
C7_Witness ==
    /\ DecodeDone /\ last.opts.accumulate /\ ~last.opts.validate
    /\ rtype = "Imm"
    /\ last.err.kind = "decode"
    /\ Len(GetErrorList(last.err)) = 2
    /\ Len(VisitedIn("decode")) = 3
    /\ last.rec[3] = 0
    /\ rec[3] = 1

\* C8: fail-fast mode. Without AccumulateFieldErrors, Decode returns an
\* error of the decode phase exactly when a conversion fails, at the first
\* entry in iteration order whose conversion fails: the entries visited
\* before it converted, no entry is visited after it, the fields of the
\* entries not visited have the value they had, and the error exposes no
\* field-error list.
C8_FailFast ==
    (DecodeDone /\ ~last.opts.accumulate) =>
        /\ GetErrorList(last.err) = <<>>
        /\ ~last.err.aggregate
        /\ last.err.kind = "decode" =>
              LET v == VisitedIn("decode") IN
              /\ Len(v) > 0
              /\ \A info \in IndexEntries(cache) :
                    /\ (info.path = v[Len(v)].path) => (Decoded(info) /\ Converted(info).err)
                    /\ (\E i \in 1..(Len(v) - 1) : v[i].path = info.path) =>
                          (Decoded(info) => ~Converted(info).err)
                    /\ (info.path \notin PathsIn("decode")) => LiveAfter(info) = LiveBefore(info)
        /\ last.err.kind = "none" =>
              \A info \in IndexEntries(cache) : Decoded(info) => ~Converted(info).err

\* C8, reached: a Decode without accumulation that stopped at the first of
\* three entries, whose container held texts for all three.
C8_Witness ==
    /\ DecodeDone /\ ~last.opts.accumulate /\ ~last.opts.validate
    /\ rtype = "Imm"
    /\ last.err.kind = "decode"
    /\ Cardinality(ToVisit) = 3
    /\ Len(VisitedIn("decode")) = 1
    /\ \E info \in ToVisit :
          /\ info.path \notin PathsIn("decode")
          /\ ~Converted(info).err
          /\ Converted(info).v # LiveBefore(info)
          /\ LiveAfter(info) = LiveBefore(info)

\* C9: an absent key is a no-op. A label or annotation field none of whose
\* keys (declared key or alias) is in the container is visited by no phase
\* of Decode, has after the call the value it had before it, and has no
\* entry in the returned list.
C9_AbsentKeyNoOp ==
    DecodeDone =>
        \A info \in IndexEntries(cache) :
            (Keyed(info.tag) /\ ~SomeKeyPresent(last.meta, info.tag)) =>
                /\ info.path \notin PathsIn("validate") \cup PathsIn("decode")
                /\ LiveAfter(info) = LiveBefore(info)
                /\ Reachable(rtype, last.rec, info.path, 1) =>
                      (/\ Reachable(rtype, rec, info.path, 1)
                       /\ fieldValue(rtype, rec, info.path, 1)
                            = fieldValue(rtype, last.rec, info.path, 1))
                /\ ListEntries(info) = 0

\* C9, reached: a Decode of a container without the keys j, m and o into a
\* record with a nil map and a set Option, which it left as they were.
C9_Witness ==
    /\ DecodeDone /\ last.err.kind = "none"
    /\ rtype = "Opt"
    /\ last.rec[2].nil
    /\ last.rec[3].isSet
    /\ DOMAIN last.meta.annotations.m = {}
    /\ DOMAIN last.meta.labels.m = {}
    /\ rec = last.rec

\* C10: direction. Encode neither writes nor removes the key of a field
\* tagged in; Decode, its validation phase included, neither modifies a
\* field tagged out nor reports an error for it: the field has no entry in
\* the returned list and no phase stops at it.
C10_Direction ==
    /\ EncodeDone =>
          \A info \in IndexEntries(TypeIndex) :
              (Keyed(info.tag) /\ info.tag.dir = in) =>
                  /\ PrimaryPresent(meta, info.tag) = PrimaryPresent(last.meta, info.tag)
                  /\ PrimaryPresent(meta, info.tag) =>
                        MapGet(MapOf(meta, info.tag), info.tag.value)
                          = MapGet(MapOf(last.meta, info.tag), info.tag.value)
    /\ DecodeDone =>
          \A info \in IndexEntries(cache) :
              info.tag.dir = out =>
                  /\ LiveAfter(info) = LiveBefore(info)
                  /\ ListEntries(info) = 0
                  /\ ~StoppedAt("validate", info)
                  /\ ~StoppedAt("decode", info)

\* C11: default decode of protected fields. After a Decode without
\* Validate that returned no error, every immutable or setonce field the
\* decode phase converts a text for has the value converted from the
\* container, whatever it held before: the value recorded under its key.
C11_DefaultDecodesProtected ==
    (DecodeDone /\ ~last.opts.validate /\ last.err.kind = "none") =>
        \A info \in IndexEntries(cache) :
            (Decoded(info) /\ (info.tag.immutable \/ info.tag.setOnce)) =>
                /\ ~Recorded(info).err
                /\ LiveAfter(info) = Recorded(info).v
                /\ LiveAfter(info) = Converted(info).v

\* C11, reached: a Decode without Validate that overwrote an immutable and
\* a setonce field that both differed from the container.
C11_Witness ==
    /\ DecodeDone /\ ~last.opts.validate /\ last.err.kind = "none"
    /\ rtype = "Imm"
    /\ last.rec[1] = 1 /\ last.rec[2] = 0
    /\ PrimaryPresent(last.meta, [source |-> annotation, value |-> "one"])
    /\ PrimaryPresent(last.meta, [source |-> annotation, value |-> "two"])
    /\ last.meta.annotations.m["one"] = <<"0">>
    /\ last.meta.annotations.m["two"] = <<"1">>
    /\ rec[1] = 0 /\ rec[2] = 1

\* The fields of struct t from field i on that have a source and are
\* declared on t or reached from it through fields tagged inline, by value
\* or by pointer, with the path from t (prefixed by path) to each.
RECURSIVE InlineFields(_, _, _)
InlineFields(t, path, i) ==
    IF i > NumField(t) THEN {}
    ELSE LET f == StructFields(t)[i]
             p == parseTag(f.tag)
             own == IF p.err \/ p.isNil THEN {}
                    ELSE IF p.pt.inline
                    THEN IF Kind(InnerStruct(t, i)) = "struct"
                         THEN InlineFields(InnerStruct(t, i), Append(path, i), 1)
                         ELSE {}
                    ELSE IF p.pt.source \in {name, namespace, annotation, label}
                    THEN {[path |-> Append(path, i), tag |-> p.pt, type |-> f.type]}
                    ELSE {}
         IN own \cup InlineFields(t, path, i + 1)

\* C12: inline flattening. After a Decode without error, every field with
\* a source that is reached from the root through one or more fields tagged
\* inline, and whose text in the container converts, has the converted
\* value, as a field declared on the root has.
C12_InlineFlattening ==
    (DecodeDone /\ last.err.kind = "none" /\ ~last.opts.immutablesOnly) =>
        \A f \in InlineFields(rtype, <<>>, 1) :
            (/\ Len(f.path) > 1
             /\ f.tag.dir # out
             /\ Keyed(f.tag) => PrimaryPresent(last.meta, f.tag)) =>
                LET r == decodeBySource(f.tag, f.type, SlotIn(last.rec, f),
                                        sourceText(CallContext, f.tag))
                IN ~r.err => SlotIn(rec, f) = r.v

\* Struct t has, from field i on, a malformed declaration on itself or on a
\* struct reached through fields tagged inline.
RECURSIVE Malformed(_, _)
Malformed(t, i) ==
    /\ i <= NumField(t)
    /\ LET p == parseTag(StructFields(t)[i].tag)
       IN \/ p.err
          \/ /\ ~p.err /\ ~p.isNil /\ p.pt.inline
             /\ Kind(InnerStruct(t, i)) = "struct"
             /\ Malformed(InnerStruct(t, i), 1)
          \/ Malformed(t, i + 1)

\* The entries of a container: its name, namespace, labels and annotations.
Entries(m) == <<m.name, m.namespace, m.labels.m, m.annotations.m>>

\* C13: tag-syntax errors are fatal and immediate. When a declaration of the
\* record type, or of a struct it reaches through inline fields, is
\* malformed, Encode and Decode return the tag error, with no field-error
\* list, and have modified no field of the record and no entry of the
\* container, whatever the options.
C13_TagErrorsImmediate ==
    (last.op # "none" /\ Malformed(rtype, 1)) =>
        /\ last.err.kind = "tag"
        /\ ~last.err.aggregate
        /\ GetErrorList(last.err) = <<>>
        /\ rec = last.rec
        /\ Entries(meta) = Entries(last.meta)

\* The conversion of a text into a slot has returned, with an error or not.
ConvertDone == last.op = "convert"

ConvertFailed == last.err.kind # "none"

\* The items of the text that was converted.
Items == Split(last.meta, itemSeparator)

\* Item i converts into element i of the array, which holds v afterwards.
ItemGives(i, v) ==
    decodeUndefined(TypeInfo(rtype).elem, last.rec[i], Items[i]) = [err |-> FALSE, v |-> v]

\* C14: fixed-array arity. Decoding a text into an array of N elements fails
\* when the text has fewer or more than N items; when it succeeds the text
\* has N items and element i holds the decoded item i; and it succeeds when
\* the text has N items that all convert.
C14_ArrayArity ==
    (ConvertDone /\ Kind(rtype) = "array") =>
        LET N == TypeInfo(rtype).len IN
        /\ Len(Items) # N => ConvertFailed
        /\ ~ConvertFailed => /\ Len(Items) = N
                             /\ \A i \in 1..N : ItemGives(i, rec[i])
        /\ (Len(Items) = N /\ \A i \in 1..N : \E v \in -128..127 : ItemGives(i, v))
               => ~ConvertFailed

\* A text of three items was refused by an array of two, which kept what it
\* held.
C14_Witness ==
    /\ ConvertDone /\ rtype = "[2]int8"
    /\ last.meta = <<"1", ",", "1", ",", "1">>
    /\ ConvertFailed
    /\ rec = <<5, 6>>

\* The values of an integer type of the model.
RangeOf(t) ==
    IF Kind(t) = "int"
    THEN -Pow2(TypeInfo(t).bits - 1)..(Pow2(TypeInfo(t).bits - 1) - 1)
    ELSE 0..(Pow2(TypeInfo(t).bits) - 1)

\* The digits of a text after its sign, if it has one.
Unsigned(s) == IF Len(s) > 0 /\ s[1] \in {"+", "-"} THEN Tail(s) ELSE s

\* s is base-10 text for type t: digits, after an optional sign when t is
\* signed.
IsNumeral(t, s) ==
    LET body == IF Kind(t) = "int" THEN Unsigned(s) ELSE s
    IN Len(body) > 0 /\ \A i \in 1..Len(body) : body[i] \in {Digits[d] : d \in 1..10}

RECURSIVE StripZeros(_)
StripZeros(s) == IF Len(s) > 1 /\ s[1] = "0" THEN StripZeros(Tail(s)) ELSE s

\* The text s, a sign and digits, is a way to write the number n.
Denotes(s, n) ==
    /\ Len(Unsigned(s)) > 0
    /\ StripZeros(Unsigned(s)) = FormatUint(IF n < 0 THEN -n ELSE n)
    /\ n < 0 => s[1] = "-"
    /\ n > 0 => s[1] # "-"

\* C15: width-exact integer decoding, for the widths 8 and 16. Base-10 text
\* that writes a number of the type's range is stored as that number; text
\* that writes a number outside the range, and text that is not base-10 text
\* for the type, give an error and leave the slot as it was; what is stored
\* is always in range and the number the text writes.
C15_WidthExact ==
    (ConvertDone /\ Kind(rtype) \in {"int", "uint"}) =>
        /\ \A n \in LimitNumbers \cup {5, 7, 12} :
              (IsNumeral(rtype, last.meta) /\ Denotes(last.meta, n)) =>
                  IF n \in RangeOf(rtype)
                  THEN ~ConvertFailed /\ rec = n
                  ELSE ConvertFailed /\ rec = last.rec
        /\ ~IsNumeral(rtype, last.meta) => (ConvertFailed /\ rec = last.rec)
        /\ ~ConvertFailed => /\ rec \in RangeOf(rtype)
                             /\ IsNumeral(rtype, last.meta)
                             /\ Denotes(last.meta, rec)

\* 128 was refused by an int8 slot, which kept its 5.
C15_Witness ==
    /\ ConvertDone /\ rtype = "int8"
    /\ last.meta = <<"1", "2", "8">>
    /\ ConvertFailed
    /\ last.rec = 5 /\ rec = 5

\* The literals strconv.ParseBool takes for true and for false.
TrueLiterals ==
    {<<"1">>, <<"t">>, <<"T">>, <<"t", "r", "u", "e">>, <<"T", "r", "u", "e">>,
     <<"T", "R", "U", "E">>}

FalseLiterals ==
    {<<"0">>, <<"f">>, <<"F">>, <<"f", "a", "l", "s", "e">>,
     <<"F", "a", "l", "s", "e">>, <<"F", "A", "L", "S", "E">>}

\* C16 as stated: boolean decoding accepts exactly "true" and "false" in any
\* letter case plus "1" and "0"; "true" and "1" give true, "false" and "0"
\* give false; every other text is an error.
C16_AnyCase ==
    (ConvertDone /\ rtype = "bool") =>
        /\ last.meta \in TrueCases \cup {<<"1">>} => (~ConvertFailed /\ rec = TRUE)
        /\ last.meta \in FalseCases \cup {<<"0">>} => (~ConvertFailed /\ rec = FALSE)
        /\ last.meta \notin TrueCases \cup FalseCases \cup {<<"1">>, <<"0">>}
               => ConvertFailed

\* C16, amended: boolean decoding accepts exactly the literals of
\* strconv.ParseBool: "1", "t", "T", "true", "True", "TRUE" give true and
\* "0", "f", "F", "false", "False", "FALSE" give false; every other text,
\* the other letter cases of the words included, is an error that leaves
\* the slot as it was.
C16_ParseBoolLiterals ==
    (ConvertDone /\ rtype = "bool") =>
        /\ last.meta \in TrueLiterals => (~ConvertFailed /\ rec = TRUE)
        /\ last.meta \in FalseLiterals => (~ConvertFailed /\ rec = FALSE)
        /\ last.meta \notin TrueLiterals \cup FalseLiterals
               => (ConvertFailed /\ rec = last.rec)

\* "tRUE" was refused and the slot kept what it held.
C16_Witness ==
    /\ ConvertDone /\ rtype = "bool"
    /\ last.meta = <<"t", "R", "U", "E">>
    /\ ConvertFailed
    /\ rec = last.rec

\* The index entries of the record type whose field is an Option.
OptionEntries == {info \in IndexEntries(cache) : Kind(SlotType(info)) = "option"}

\* The decode phase of the call converted the text of an entry into its
\* field without error.
DecodedWell(info) ==
    /\ Decoded(info)
    /\ info.path \in PathsIn("decode")
    /\ ~Converted(info).err

\* C17: Option presence on decode. After Decode the presence flag of an
\* Option field is true exactly when it was true before the call or the key
\* of the field was present and the inner value was decoded without error,
\* in which case the Option holds the decoded value; with the key absent or
\* the inner decode failed the flag is what it was.
C17_OptionPresence ==
    DecodeDone =>
        \A info \in OptionEntries :
            /\ LiveAfter(info).isSet <=>
                  (LiveBefore(info).isSet \/ DecodedWell(info))
            /\ DecodedWell(info) => LiveAfter(info) = Converted(info).v
            /\ (~PrimaryPresent(last.meta, info.tag) \/ Converted(info).err) =>
                  LiveAfter(info).isSet = LiveBefore(info).isSet

\* An unset Option whose key held "1" is Some(1) after Decode.
C17_Witness ==
    /\ DecodeDone /\ rtype = "Opt" /\ ~last.opts.validate
    /\ ~last.rec[3].isSet
    /\ MapHas(last.meta.annotations, "o")
    /\ last.meta.annotations.m["o"] = <<"1">>
    /\ rec[3] = [isSet |-> TRUE, value |-> 1]

\* The Option fields of the record type that Encode writes a key for.
EncodedOptions ==
    {info \in IndexEntries(TypeIndex) :
        /\ Kind(SlotType(info)) = "option"
        /\ Keyed(info.tag)
        /\ info.tag.dir # in
        /\ Reachable(rtype, last.rec, info.path, 1)}

\* The key of an entry was not written: the container does not hold it, or
\* holds under it what it held before.
Unwritten(info) ==
    PrimaryPresent(meta, info.tag) =>
        /\ PrimaryPresent(last.meta, info.tag)
        /\ MapGet(MapOf(meta, info.tag), info.tag.value)
             = MapGet(MapOf(last.meta, info.tag), info.tag.value)

\* C18: Option on encode. After an Encode without error the key of an Option
\* field that is present holds the encoded inner value and nothing of the
\* flag, with or without omitempty, also when the inner value is zero; the
\* key of an Option field that is absent was not written.
C18_OptionEncode ==
    (EncodeDone /\ last.err.kind = "none") =>
        \A info \in EncodedOptions :
            IF LiveBefore(info).isSet
            THEN /\ PrimaryPresent(meta, info.tag)
                 /\ \E ord \in MapOrders :
                       MapGet(MapOf(meta, info.tag), info.tag.value)
                         = encodeUndefined(TypeInfo(SlotType(info)).elem,
                                           LiveBefore(info).value, ord).s
            ELSE Unwritten(info)

\* C20: lazy map allocation. When Encode returns, with an error or not, the
\* labels map and the annotations map of the container are not null, so
\* every key a field wrote or removed was written to or removed from an
\* allocated map; a map that was null and that no field wrote to is empty.
C20_MapsAllocated ==
    EncodeDone =>
        /\ ~meta.labels.nil
        /\ ~meta.annotations.nil
        /\ (/\ last.meta.labels.nil
            /\ \A f \in InlineFields(rtype, <<>>, 1) : f.tag.source # label)
              => meta.labels.m = <<>>

\* An Encode into a container whose maps were both null wrote a label.
C20_Witness ==
    /\ EncodeDone /\ rtype = "Dir" /\ last.err.kind = "none"
    /\ last.meta.labels.nil /\ last.meta.annotations.nil
    /\ last.rec[3] = <<"a">>
    /\ meta.labels = [nil |-> FALSE, m |-> ("l" :> <<"a">>)]
    /\ ~meta.annotations.nil

\* The index newCache builds for a record type.
IndexOf(t) == newCache(PtrTo(t)).c

\* The call of goroutine p traverses, or has traversed, the index it holds.
Traversing(p) ==
    \/ calls[p].pc = "iterate"
    \/ calls[p].pc = "done" /\ calls[p].err.kind # "tag"

\* What Decode leaves in a zero record of type t, alone on a new Decoder.
AloneResults(t) ==
    {Decode(emptyCache, ConcMeta(t), t, ConcRecord(t), noOptions, aord, lord).root :
        aord \in Perms(DOMAIN ConcMeta(t).annotations.m),
        lord \in Perms(DOMAIN ConcMeta(t).labels.m)}

-----------------------------------------------------------------------------
(* One Decoder, a sequence of Decode calls.  Each call brings its own new  *)
(* record, whose type it chooses, and the same container.  The Decoder is  *)
(* one of the two of decoder.go: the one with the atomic slot (Load,       *)
(* newCache, Store) or the one that builds in its own cache value.         *)

SeqTypes == {"Imm", "Ali", "BadTok", "BadIn"}

SeqMeta ==
    [name |-> <<>>, namespace |-> <<>>,
     labels |-> [nil |-> TRUE, m |-> <<>>],
     annotations |->
        [nil |-> FALSE,
         m |-> ("one" :> <<"1">>) @@ ("three" :> <<"1">>) @@
               ("k" :> <<"1">>) @@ ("f" :> <<"1">>)]]

SeqOrders == {<<"f", "k", "one", "three">>, <<"three", "one", "k", "f">>}

SeqInit ==
    /\ rtype = ""
    /\ rec = <<>>
    /\ meta = SeqMeta
    /\ cache = emptyCache
    /\ last = noCall
    /\ nops = 0
    /\ saved = <<>>
    /\ calls = <<>>
    /\ stores = <<>>
    /\ variant \in {"atomic", "inplace"}

\* The state after the call on a record of type t returned r; built tells
\* whether the call ran the index construction.
seqReturns(t, built, r) ==
    /\ rtype' = t
    /\ rec' = r.root
    /\ cache' = r.cache
    /\ last' = [op |-> "decode", opts |-> noOptions, err |-> r.err,
                rec |-> Zero(t), meta |-> meta, cache |-> cache,
                visited |-> r.visited]
    /\ stores' = IF built THEN Append(stores, t) ELSE stores

atomicReturns(t, ix, aord) ==
    seqReturns(t, ix.built,
               decodeWithIndex(ix, cache, meta, Zero(t), noOptions, aord, <<>>))

inplaceReturns(t, b, aord) ==
    seqReturns(t, b.built,
               decodeOnBuilt(b, meta, Zero(t), noOptions, aord, <<>>))

\* dec.Decode(meta, &rec) on the Decoder with the atomic slot
SeqDecodeAtomic ==
    /\ variant = "atomic"
    /\ nops < MaxCalls
    /\ \E t \in SeqTypes : \E aord \in SeqOrders :
          atomicReturns(t, loadIndex(cache, t), aord)
    /\ nops' = nops + 1
    /\ UNCHANGED <<meta, saved, calls, variant>>

\* dec.Decode(meta, &rec) on the Decoder that builds in place
SeqDecodeInPlace ==
    /\ variant = "inplace"
    /\ nops < MaxCalls
    /\ \E t \in SeqTypes : \E aord \in SeqOrders :
          inplaceReturns(t, build(cache, PtrTo(t)), aord)
    /\ nops' = nops + 1
    /\ UNCHANGED <<meta, saved, calls, variant>>

SeqNext == SeqDecodeAtomic \/ SeqDecodeInPlace

SeqSpec == SeqInit /\ [][SeqNext]_vars

-----------------------------------------------------------------------------
(* Claims about the cache over a sequence of calls *)

\* The slot holds nothing, or the complete index of the type it names.
SlotComplete ==
    \/ cache = emptyCache
    \/ cache.CachedType # "" /\ cache = IndexOf(PtrElem[cache.CachedType])

\* The step is a Decode call that ran the index construction.
Built == stores' # stores

\* C21: index reuse. Over every sequence of Decode calls on one Decoder, a
\* call runs the index construction exactly when the slot is empty or names
\* another type than the record's; a call on the type the slot names leaves
\* the slot as it is; and the slot always holds nothing or the complete
\* index of the type it names.
C21_IndexReuse ==
    /\ [][ /\ Built <=> (cache.CachedType = "" \/ cache.CachedType # PtrTo(rtype'))
           /\ ~Built => cache' = cache ]_vars
    /\ []SlotComplete

\* What Decode leaves in a new record of type t on a new Decoder.
SeqAlone(t) ==
    {Decode(emptyCache, SeqMeta, t, Zero(t), noOptions, aord, <<>>).root :
        aord \in SeqOrders}

\* C22: a failed index construction does not damage the cache. A Decode
\* call that returns a tag error leaves the slot exactly as it was, and
\* every call that gets past the index, also one that follows failed calls
\* on other types, leaves in its record what a Decode on a new Decoder
\* leaves.
C22_FailedBuildKeepsCache ==
    /\ [][last'.err.kind = "tag" => cache' = cache]_vars
    /\ []((last.op = "decode" /\ last.err.kind # "tag") => rec \in SeqAlone(rtype))

-----------------------------------------------------------------------------
(* Claims about what the index and the two directions cover *)

\* The number of entries of list q, and of the lists of bucket b, with path.
CountIn(q, path) == Cardinality({i \in 1..Len(q) : q[i].path = path})

CountInBucket(b, path) ==
    Cardinality({ki \in UNION {{<<k, i>> : i \in 1..Len(b[k])} : k \in DOMAIN b} :
                    b[ki[1]][ki[2]].path = path})

EntryCount(c, path) ==
    CountIn(c.NameFastAccess, path) + CountIn(c.NamespaceFastAccess, path)
      + CountInBucket(c.AnnotationFastAccess, path)
      + CountInBucket(c.LabelsFastAccess, path)

\* C23: index completeness. The index a Decode built has exactly one entry,
\* with the field's own path, for every field with a source that is
\* declared on the root or reached from it through fields tagged inline
\* and through pointers, also when two such fields have the same struct
\* type or one has the type and the other a pointer to it.
C23_IndexComplete ==
    DecodeDone =>
        \A f \in InlineFields(rtype, <<>>, 1) : EntryCount(cache, f.path) = 1

-----------------------------------------------------------------------------
(* parseTag on struct tag texts: up to MaxTokens tokens, each with or      *)
(* without white space before or after it.                                 *)

TagTokens ==
    { <<"name">>, <<"namespace">>, <<"immutable">>, <<"in">>,
      <<"annotation", ":", "k">>, <<"label", ":", "l">>, <<"annotation", ":">>,
      <<"aliases", ":", "a", ";", "b">>,
      <<"Name">>, <<"IMMUTABLE">>, <<"Annotation", ":", "k">> }

UpperCased == { <<"Name">>, <<"IMMUTABLE">>, <<"Annotation", ":", "k">> }

Padded(tok) == {tok, <<" ">> \o tok, tok \o <<" ">>}

RECURSIVE TagBodies(_)
TagBodies(n) ==
    IF n = 1 THEN UNION {Padded(tok) : tok \in TagTokens}
    ELSE LET shorter == TagBodies(n - 1)
         IN shorter \cup
            {b \o <<",">> \o p :
                b \in {x \in shorter : Len(Split(x, ",")) = n - 1},
                p \in UNION {Padded(tok) : tok \in TagTokens}}

TagTexts == {<<k8sOpen>> \o b \o <<quote>> : b \in TagBodies(MaxTokens)}

\* The text without its white space.
Unpadded(text) == SelectSeq(text, LAMBDA x : x # " ")

TagInit ==
    /\ rtype = ""
    /\ rec = <<>>
    /\ meta \in TagTexts
    /\ cache = emptyCache
    /\ last = noCall
    /\ nops = 0
    /\ saved = <<>>
    /\ calls = <<>>
    /\ stores = <<>>
    /\ variant = "atomic"

\* pt, err := parseTag(tag)
ParseTag ==
    /\ nops = 0
    /\ rec' = parseTagText(meta)
    /\ last' = [noCall EXCEPT !.op = "parseTag", !.meta = meta]
    /\ nops' = 1
    /\ UNCHANGED <<rtype, meta, cache, saved, calls, stores, variant>>

TagNext == ParseTag

TagSpec == TagInit /\ [][TagNext]_vars

Parsed == last.op = "parseTag"

\* C24: descriptor consistency. Every descriptor parseTag returns, for every
\* token sequence, has an empty key when its source is the name or the
\* namespace and a key that is not empty when its source is a label or an
\* annotation.
C24_DescriptorConsistent ==
    (Parsed /\ ~rec.err /\ ~rec.isNil) =>
        /\ rec.pt.source \in {name, namespace} => rec.pt.value = ""
        /\ rec.pt.source \in {annotation, label} => rec.pt.value # ""

\* C25: trimming and letter case of the tag grammar. A tag whose tokens
\* have white space before or after them parses to what the tag without
\* the white space parses to, and a tag with a keyword in another letter
\* case is rejected with an error.
C25_TrimAndCase ==
    Parsed =>
        /\ rec = parseTagText(Unpadded(meta))
        /\ (\E u \in UpperCased :
               \E i \in 1..Len(Split(Unpadded(meta), ",")) :
                  Split(TrimSuffix(TrimPrefix(Unpadded(meta), k8sOpen), quote), ",")[i] = u)
             => rec.err

\* The text a container holds for the declared key of a tag, if any.
HeldFor(m, tag) ==
    IF PrimaryPresent(m, tag) THEN <<MapGet(MapOf(m, tag), tag.value)>> ELSE <<>>

\* Field f of the record lies behind a nil pointer, and no field that does
\* not has its source and key.
BehindNil(f) ==
    /\ Keyed(f.tag)
    /\ ~Reachable(rtype, rec, f.path, 1)
    /\ \A g \in InlineFields(rtype, <<>>, 1) :
          (g.tag.source = f.tag.source /\ g.tag.value = f.tag.value) =>
              ~Reachable(rtype, rec, g.path, 1)

\* C26: Encode is read-only on the record. After Encode the record is what
\* it was: no field changed and no nil pointer to a struct allocated; the
\* fields behind a nil pointer to an inline struct are skipped, the
\* container holds for their keys what it held. Decode, in contrast,
\* allocates the nil pointers on the path to every field its closures act
\* on.
C26_EncodeReadOnly ==
    /\ EncodeDone =>
          /\ rec = last.rec
          /\ \A f \in InlineFields(rtype, <<>>, 1) :
                BehindNil(f) => HeldFor(meta, f.tag) = HeldFor(last.meta, f.tag)
    /\ DecodeDone =>
          \A info \in IndexEntries(cache) :
              (/\ Selected(info)
               /\ info.path \in PathsIn("decode") \cup PathsIn("validate")) =>
                  Reachable(rtype, rec, info.path, 1)

\* Encode returned for a Ptr record whose inline pointer P is nil, with a
\* container that holds the annotation of a field behind P.
C26_Witness ==
    /\ EncodeDone
    /\ rtype = "Ptr"
    /\ rec[2] = <<>>
    /\ MapHas(meta.annotations, "v")

\* Path p comes before path q in the order of the declarations.
RECURSIVE PathBefore(_, _, _)
PathBefore(p, q, i) ==
    IF i > Len(p) \/ i > Len(q) THEN Len(p) < Len(q)
    ELSE IF p[i] # q[i] THEN p[i] < q[i]
    ELSE PathBefore(p, q, i + 1)

\* A field Encode gets to (no nil pointer on the way) and converts: not
\* tagged in, not omitted.
Encoded(f) ==
    /\ Reachable(rtype, last.rec, f.path, 1)
    /\ f.tag.dir # in
    /\ ~(f.tag.omitempty /\ IsZero(f.type, SlotIn(last.rec, f)))

\* A field whose conversion by Encode fails, whatever the order of a map.
FailsToEncode(f) ==
    /\ Encoded(f)
    /\ \A ord \in MapOrders : encodeBySource(FieldValueOf(f), ord).err

\* C27: Encode stops at the first conversion error. Encode takes the
\* fields of a struct from the last declared to the first; when it returns
\* a conversion error, a field failed to convert and, for every field
\* that comes after it in that order, the container holds what it held
\* before the call: nothing was written or removed for it. The error is
\* the single one of that field: Encode has no list of field errors.
C27_EncodeStopsAtFirstError ==
    (EncodeDone /\ last.err.kind = "field") =>
        /\ ~last.err.aggregate /\ last.err.list = <<>>
        /\ \E f \in InlineFields(rtype, <<>>, 1) :
              /\ FailsToEncode(f)
              /\ \A g \in InlineFields(rtype, <<>>, 1) :
                    (Keyed(g.tag) /\ PathBefore(g.path, f.path, 1)) =>
                        HeldFor(meta, g.tag) = HeldFor(last.meta, g.tag)

\* Encode of a Cus record returned the conversion error of S: the label of
\* C, declared after S, was written, and the annotation of A, declared
\* before S, is still missing.
C27_Witness ==
    /\ EncodeDone
    /\ last.err.kind = "field"
    /\ rtype = "Cus"
    /\ rec[3] = 1
    /\ ~MapHas(last.meta.labels, "c") /\ MapHas(meta.labels, "c")
    /\ ~MapHas(meta.annotations, "a")

\* C28: a failed conversion leaves the target untouched. When the
\* conversion of a text into a slot returns an error, the slot holds what
\* it held before, whatever its type: scalars, and fixed arrays of which
\* earlier elements converted.
C28_FailedConversionKeepsTarget ==
    ConvertFailed => rec = last.rec

\* C29: validation covers the keys that are present only. In a Decode with
\* Validate(true), the validation phase visits an immutable or setonce
\* field with an annotation or label source only when the container holds
\* the declared key; for a field whose key the container does not hold, no
\* error is reported (no entry in the list, no stop at it), also when its
\* live value is not zero.
C29_ValidationPresentKeysOnly ==
    (DecodeDone /\ last.opts.validate) =>
        \A info \in IndexEntries(cache) :
            (Keyed(info.tag) /\ (info.tag.immutable \/ info.tag.setOnce)) =>
                /\ info.path \in PathsIn("validate") => PrimaryPresent(last.meta, info.tag)
                /\ ~PrimaryPresent(last.meta, info.tag) =>
                      /\ ListEntries(info) = 0
                      /\ VisitedIn("validate") # <<>> => ~StoppedAt("validate", info)

\* A Decode with Validate(true) of an Imm record whose immutable A and
\* setonce B are 1, under a container without the keys one and two,
\* returned no error.
C29_Witness ==
    /\ DecodeDone
    /\ last.opts.validate
    /\ rtype = "Imm"
    /\ last.rec[1] = 1 /\ last.rec[2] = 1
    /\ ~MapHas(last.meta.annotations, "one")
    /\ ~MapHas(last.meta.annotations, "two")
    /\ last.err.kind = "none"

\* The fields with a source declared on struct t from field i on or on a
\* struct nested in it, whatever the tag of the field that holds the struct:
\* [path, tag, type].
RECURSIVE NestedFields(_, _, _)
NestedFields(t, path, i) ==
    IF i > NumField(t) THEN {}
    ELSE LET f == StructFields(t)[i]
             p == parseTag(f.tag)
             own == IF p.err \/ p.isNil THEN {}
                    ELSE IF p.pt.source \in {name, namespace, annotation, label}
                    THEN {[path |-> Append(path, i), tag |-> p.pt, type |-> f.type]}
                    ELSE {}
             inner == IF Kind(InnerStruct(t, i)) = "struct"
                      THEN NestedFields(InnerStruct(t, i), Append(path, i), 1)
                      ELSE {}
         IN own \cup inner \cup NestedFields(t, path, i + 1)

\* The paths of the entries of the index Decode builds for the record type.
IndexedPaths == {info.path : info \in IndexEntries(TypeIndex)}

\* A field on which what Encode does shows in the container: keyed, used in
\* both directions, not omitted, not behind a nil pointer, the only field
\* the record reaches with its key, and the key was not in the container.
ShowsEncode(g) ==
    /\ Keyed(g.tag) /\ g.tag.dir = inout /\ ~g.tag.omitempty
    /\ Reachable(rtype, last.rec, g.path, 1)
    /\ ~PrimaryPresent(last.meta, g.tag)
    /\ \A h \in NestedFields(rtype, <<>>, 1) :
          (h.tag.source = g.tag.source /\ h.tag.value = g.tag.value /\ h.path # g.path)
              => ~Reachable(rtype, last.rec, h.path, 1)

\* C30: Encode and Decode manage the same fields. For every record type, a
\* field with a source, declared on the record or on a struct nested in it,
\* is written by Encode exactly when the index Decode builds has an entry
\* with its path: also a field of a struct held by a field without the
\* inline tag, and each of two inline fields of one struct type.
C30_SameFields ==
    (EncodeDone /\ last.err.kind = "none") =>
        \A g \in NestedFields(rtype, <<>>, 1) :
            ShowsEncode(g) => (PrimaryPresent(meta, g.tag) <=> g.path \in IndexedPaths)

====
